---- MODULE Spec2Model ----
(***************************************************************************)
(* Model of the retrieval-augmented context engine of projectX:            *)
(*   back/ai/secure_rag_engine.py  (SecureTelegramRAGEngine, the Message   *)
(*                                  Store and the Period Summarizer)       *)
(*   back/ai/rag_pipeline.py       (build_context_for_ai, the Context      *)
(*                                  Assembler)                             *)
(*   back/agents/*.py              (ChiefAgent and its five stages)        *)
(*   back/api/ai.py                (generate_agent_response)               *)
(*                                                                         *)
(* Time is counted in ticks, TicksPerDay ticks to a calendar day; an ISO   *)
(* timestamp is its tick number (ISO strings of one format sort as their   *)
(* instants do) and a day bucket "%Y-%m-%d" is the day number.             *)
(* Similarity scores are cosine scores times 100.                          *)
(***************************************************************************)
EXTENDS Integers, Sequences, FiniteSets, TLC

VARIABLES
    qdrant_client,            \* TRUE iff QdrantClient(...) was constructed
    ai_client,                \* TRUE iff the Gemini client is available
    collections_initialized,  \* SecureTelegramRAGEngine._collections_initialized
    messages,                 \* the points of collection "secure_telegram_messages"
    summaries,                \* the points of collection "secure_telegram_summaries"
    now,                      \* datetime.now(), in ticks
    advances,                 \* how often the clock was advanced
    ret,                      \* the last operation of the engine or assembler and what it returned
    pc,                       \* ChiefAgent.execute: the position of the run
    state,                    \* ChiefAgent.execute: the Pipeline State mapping
    initial_state,            \* the mapping the caller passed to ChiefAgent.execute
    ran,                      \* the stages whose execute() was entered, in order
    raised,                   \* the stages whose execute() raised into _run_agent
    caught,                   \* the stages whose execute() caught an exception itself
    response,                 \* what generate_agent_response gave its HTTP caller
    heap,                     \* the dict objects of concurrent runs, by address
    runs,                     \* the concurrent calls of ChiefAgent.execute
    dialog_cache,             \* chats.dialog_cache
    recent_suggestions        \* MessageAnalyzer.recent_suggestions

storeVars == <<qdrant_client, ai_client, collections_initialized, messages,
               summaries, now, advances, ret>>
auxVars == <<heap, runs, dialog_cache, recent_suggestions>>
agentVars == <<pc, state, initial_state, ran, raised, caught, response,
               heap, runs, dialog_cache, recent_suggestions>>
vars == <<qdrant_client, ai_client, collections_initialized, messages,
          summaries, now, advances, ret, pc, state, initial_state, ran,
          raised, caught, response, heap, runs, dialog_cache,
          recent_suggestions>>

(***************************************************************************)
(* Bounds of the model and constants of the program.                       *)
(***************************************************************************)
MaxPoints == 2          \* message points the store holds at most
MaxChunks == 1          \* summary chunks the store holds at most
MaxAdvances == 1        \* clock advances in one behaviour
TicksPerDay == 3        \* timestamps told apart within one day
RetentionDays == 30     \* DATA_RETENTION_DAYS
MinTextLength == 3      \* store_message_securely: len(message_text) < 3
DefaultWindowDays == 7  \* _detect_time_range: range(7)

None == "<None>"

\* Two chats of one session and one chat of another session.
Scopes == {<<"s1", 42>>, <<"s1", 43>>, <<"s2", 42>>}
MsgIds == {1, 2, 3}

TextHi == "Hi"
TextProject == "How's the project going?"
TextRag == "Great, finished the RAG pipeline"

\* A trim that leaves the text as it is.
NoStrip(text) == text

\* str.strip() on the texts of the model.
Strip(text) == IF text = " ok " THEN "ok" ELSE text

ScoreLevels == {15, 80, 90}
ChunkScoreLevels == {15, 80}

Min(a, b) == IF a < b THEN a ELSE b
Max(a, b) == IF a > b THEN a ELSE b

DayOf(ts) == ts \div TicksPerDay
\* The "HH:MM:SS" of an ISO timestamp, date[-8:]
TimeOfDay(ts) == ts % TicksPerDay

RECURSIVE SeqOfSet(_)
SeqOfSet(S) ==
    IF S = {} THEN <<>>
    ELSE LET x == CHOOSE y \in S : TRUE IN <<x>> \o SeqOfSet(S \ {x})

\* s[:n]
Take(s, n) == SubSeq(s, 1, Min(n, Len(s)))
\* s[-n:] for n > 0
LastN(s, n) == SubSeq(s, Max(1, Len(s) - n + 1), Len(s))

\* Stable insertion of the pair x into the pairs s, sorted by key.
RECURSIVE InsertByKey(_, _)
InsertByKey(x, s) ==
    IF s = <<>> THEN <<x>>
    ELSE IF x.key < Head(s).key THEN <<x>> \o s
    ELSE <<Head(s)>> \o InsertByKey(x, Tail(s))

RECURSIVE SortPairs(_)
SortPairs(s) ==
    IF s = <<>> THEN <<>>
    ELSE InsertByKey(s[Len(s)], SortPairs(SubSeq(s, 1, Len(s) - 1)))

Range(s) == {s[i] : i \in 1..Len(s)}

\* sorted(s, key=...): ascending and stable, elements of equal key keep
\* their order (sorted(..., reverse=True) is SortedBy with the key negated).
\* key is the function that gives each element of s its key.
SortedBy(s, key) ==
    LET sorted == SortPairs([i \in 1..Len(s) |-> [key |-> key[s[i]], val |-> s[i]]])
    IN  [i \in 1..Len(s) |-> sorted[i].val]

(***************************************************************************)
(* The vector store (Qdrant), as the engine uses it.                       *)
(***************************************************************************)
\* uuid.uuid5(NAMESPACE_DNS, combined): a point is identified by the string
\* that is hashed; UuidRank is the position of its uuid among the uuids of
\* the model's ids, the order in which scroll() returns points.
UuidRank ==
    [k \in {"s1_42_1", "s2_43_3", "s1_43_3", "s1_43_2", "s1_43_4", "s2_42_3",
            "s2_42_1", "s2_43_1", "s1_42_3", "s1_42_4", "s2_43_2", "s2_43_4",
            "s2_42_2", "s2_42_4", "s1_42_2", "s1_43_1"} |->
        CASE k = "s1_42_1" -> 1  [] k = "s2_43_3" -> 2  [] k = "s1_43_3" -> 3
          [] k = "s1_43_2" -> 4  [] k = "s1_43_4" -> 5  [] k = "s2_42_3" -> 6
          [] k = "s2_42_1" -> 7  [] k = "s2_43_1" -> 8  [] k = "s1_42_3" -> 9
          [] k = "s1_42_4" -> 10 [] k = "s2_43_2" -> 11 [] k = "s2_43_4" -> 12
          [] k = "s2_42_2" -> 13 [] k = "s2_42_4" -> 14 [] k = "s1_42_2" -> 15
          [] k = "s1_43_1" -> 16]

RankOf(id) == IF id \in DOMAIN UuidRank THEN UuidRank[id] ELSE 0

\* The points in the order of their ids.
ById(points) == SortedBy(SeqOfSet(points), [p \in points |-> RankOf(p.id)])

\* An insert that keeps the points already there.
InsertKeeping(collection, point) == collection \cup {point}

\* upsert(collection, points=[point]): a point of the same id is replaced.
Upsert(collection, point) ==
    {q \in collection : q.id # point.id} \cup {point}

\* scroll(collection, scroll_filter, limit)[0]: the first `limit` points that
\* pass the filter, in the order of their ids. scroll_filter tells of each
\* point of the collection whether it passes.
Scroll(collection, scroll_filter, limit) ==
    Take(ById({p \in collection : scroll_filter[p]}), limit)

\* search(collection, query_vector, query_filter, limit, score_threshold):
\* the `limit` best points that pass the filter and reach the threshold, best
\* first. score[id] is the cosine score the index computes for the point.
Search(collection, score, query_filter, limit, score_threshold) ==
    LET hits == {p \in collection : query_filter[p] /\ score[p.id] >= score_threshold}
        best == SortedBy(ById(hits), [p \in hits |-> 0 - score[p.id]])
    IN  Take([i \in 1..Len(best) |->
                 [score |-> score[best[i].id], payload |-> best[i]]], limit)

\* delete(collection, points_selector=FilterSelector(filter))
DeleteByFilter(collection, filter) == {p \in collection : ~filter[p]}

\* delete(collection, points_selector=PointIdsList(points=ids))
DeleteByIds(collection, ids) == {p \in collection : p.id \notin ids}

(***************************************************************************)
(* The providers. One call of an operation meets env: the provider calls   *)
(* that fail in it, the completion model's answer, and the scores the      *)
(* index computes for the message points and the summary chunks.           *)
(*   "emb"     genai.embed_content raises or returns no embedding          *)
(*   "llm"     generate_text returns None                                  *)
(*   "ensure"  get_collection and create_collection raise                  *)
(*   "upsert", "search", "scroll", "native", "delete", "range"             *)
(*             the vector-store call of that kind raises                   *)
(***************************************************************************)
MaxFaults == 1          \* provider calls that fail within one operation

FaultKinds == {"emb", "llm", "ensure", "upsert", "search", "scroll",
               "native", "delete", "range"}
Digests == {"digest A", "digest B"}

\* Provider calls that never fail.
AlwaysOk(env, kind) == TRUE

Ok(env, kind) == kind \notin env.faults

FaultSets == {F \in SUBSET FaultKinds : Cardinality(F) <= MaxFaults}

\* The environments of a call that makes provider calls of the kinds K, gets
\* one of the digests D from the completion model, searches among the message
\* points of ids M, among the summary chunks of ids C, and a second time, with
\* another query, among the summary chunks of ids Q.
Envs(K, D, M, C, Q) ==
    [faults : {F \in FaultSets : F \subseteq K}, digest : D,
     mscore : [M -> ScoreLevels], cscore : [C -> ChunkScoreLevels],
     qscore : [Q -> ChunkScoreLevels]]

(***************************************************************************)
(* SecureTelegramRAGEngine: the Message Store.                             *)
(***************************************************************************)
\* An id that leaves the chat out: f"{session_id}_{message_id}"
PointIdOfSession(session_id, chat_id, message_id) ==
    session_id \o "_" \o ToString(message_id)

\* f"{session_id}_{chat_id}_{message_id}", the string uuid5 hashes.
PointId(session_id, chat_id, message_id) ==
    session_id \o "_" \o ToString(chat_id) \o "_" \o ToString(message_id)

\* _generate_embedding. The vector is represented by the text it embeds; no
\* text of the model exceeds max_text_length.
GenerateEmbedding(text, env) ==
    IF ~ai_client \/ Strip(text) = "" THEN None
    ELSE IF Ok(env, "emb") THEN text ELSE None

\* The strings of message["date"]:
\*   [fmt |-> "rel", minutes |-> n]  "n+00:00", n minutes ago
\*   [fmt |-> "iso", ts |-> t, sep |-> c, offset |-> o]
\*                                   the instant t written as date, separator c
\*                                   ("T" or " "), time and offset o: "none",
\*                                   "plus" (+hh:mm), "minus" (-hh:mm) or "Z"
\*   [fmt |-> "bad"]                 a string fromisoformat rejects
\*   [fmt |-> "empty"]               "" or no date
\* "+" in date_str
HasPlus(date) ==
    date.fmt = "rel" \/ (date.fmt = "iso" /\ date.offset = "plus")

\* "T" in date_str
HasT(date) == date.fmt = "iso" /\ date.sep = "T"

\* A parse that treats every string as unparseable.
ParseAsNow(date) == now

\* The date branch of _extract_safe_metadata: msg_date of message["date"].
\* fromisoformat takes a date and time with either separator and with a
\* numeric offset; the branch for "T" cuts the string at "+" and at "Z".
ParseDate(date) ==
    IF date.fmt = "empty" THEN now
    ELSE IF HasPlus(date) /\ ~HasT(date)
    THEN IF date.fmt = "rel" THEN now - date.minutes ELSE now
    ELSE IF HasT(date) THEN date.ts
    ELSE IF date.fmt = "iso" /\ date.offset \in {"none", "minus"} THEN date.ts
    ELSE now

ExtractSafeMetadata(message) ==
    LET msg_date == ParseDate(message.date)
    IN  [message_id |-> message.id,
         date |-> msg_date,
         day_bucket |-> DayOf(msg_date)]

\* _ensure_collections_exist: the value of _collections_initialized after it.
EnsureCollectionsExist(env) ==
    IF ~qdrant_client \/ collections_initialized THEN collections_initialized
    ELSE Ok(env, "ensure")

\* The point store_message_securely builds. The payload has no
\* retention_expires key; stored_at is a history field (the instant of the
\* upsert), not part of the payload.
MessagePoint(session_id, chat_id, message) ==
    LET safe_metadata == ExtractSafeMetadata(message)
    IN  [id |-> PointId(session_id, chat_id, safe_metadata.message_id),
         session_id |-> session_id,
         chat_id |-> chat_id,
         message_id |-> safe_metadata.message_id,
         date |-> safe_metadata.date,
         day_bucket |-> safe_metadata.day_bucket,
         text |-> Strip(message.text),
         retention_expires |-> None,
         stored_at |-> now]

\* store_message_securely: [val, messages, initialized] after the call.
StoreMessageSecurely(session_id, chat_id, message, env) ==
    LET message_text == Strip(message.text)
        init == EnsureCollectionsExist(env)
        failed == [val |-> FALSE, messages |-> messages, initialized |-> init]
    IN  IF ~qdrant_client \/ ~ai_client
        THEN [val |-> FALSE, messages |-> messages,
              initialized |-> collections_initialized]
        ELSE IF message_text = "" \/ Len(message_text) < MinTextLength THEN failed
        ELSE IF GenerateEmbedding(message_text, env) = None THEN failed
        ELSE IF ~Ok(env, "upsert") THEN failed
        ELSE [val |-> TRUE,
              messages |-> Upsert(messages, MessagePoint(session_id, chat_id, message)),
              initialized |-> init]

\* The filter of find_similar_messages_secure (must_conditions).
SimilarFilter(p, session_id, chat_id, include_other_chats, day_buckets) ==
    /\ p.session_id = session_id
    /\ include_other_chats \/ p.chat_id = chat_id
    /\ day_buckets = {} \/ p.day_bucket \in day_buckets

\* "high" if score > 0.85 else "medium" if score > 0.75 else "low"
Relevance(score) ==
    IF score > 85 THEN "high" ELSE IF score > 75 THEN "medium" ELSE "low"

\* find_similar_messages_secure: the list returned. day_buckets is the set of
\* day buckets asked for, {} for None or [].
FindSimilarMessagesSecure(session_id, chat_id, query_text, limit, score_threshold, include_other_chats, day_buckets, env) ==
    IF ~qdrant_client \/ ~ai_client THEN <<>>
    ELSE IF GenerateEmbedding(query_text, env) = None THEN <<>>
    ELSE IF ~Ok(env, "search") THEN <<>>
    ELSE LET search_results ==
                 Search(messages, env.mscore,
                        [p \in messages |->
                            SimilarFilter(p, session_id, chat_id,
                                          include_other_chats, day_buckets)],
                        limit, score_threshold)
         IN  [i \in 1..Len(search_results) |->
                 [score |-> search_results[i].score,
                  relevance |-> Relevance(search_results[i].score),
                  metadata |-> search_results[i].payload,
                  text |-> search_results[i].payload.text,
                  date |-> search_results[i].payload.date]]

\* The value of _collections_initialized after find_similar_messages_secure:
\* once the query is embedded the flag is set, whatever the attempt gave.
InitializedAfterFind(query_text, env) ==
    IF ~qdrant_client \/ ~ai_client THEN collections_initialized
    ELSE IF GenerateEmbedding(query_text, env) = None THEN collections_initialized
    ELSE TRUE

SweepScrollLimit == 1000   \* cleanup_expired_messages: scroll(limit=1000)
PeriodScrollLimit == 1000  \* get_messages_for_period: limit=1000
ChunkThreshold == 20       \* find_similar_chunks: score_threshold=0.2
ContextThreshold == 65     \* get_enhanced_context_secure: score_threshold=0.65
ContextSimilarLimit == 5   \* get_enhanced_context_secure: limit=5

\* The message dicts built from payloads in get_enhanced_context_secure and
\* get_messages_for_period: they carry no day_bucket.
FormatMessage(payload) ==
    [id |-> payload.message_id, text |-> payload.text, date |-> payload.date]

ScopeFilter(p, session_id, chat_id) ==
    p.session_id = session_id /\ p.chat_id = chat_id

\* get_enhanced_context_secure: the dict returned (the scroll raises when
\* there is no client). The dict of the except branch has no recent_messages
\* key.
GetEnhancedContextSecure(session_id, chat_id, current_message, context_limit, env) ==
    IF ~qdrant_client \/ ~Ok(env, "scroll")
    THEN [recent_messages_metadata |-> <<>>, similar_messages |-> <<>>,
          rag_enhanced |-> FALSE]
    ELSE LET recent_results ==
                 Scroll(messages,
                        [p \in messages |-> ScopeFilter(p, session_id, chat_id)],
                        context_limit)
             recent_messages ==
                 Take(SortedBy(recent_results,
                               [p \in Range(recent_results) |-> 0 - p.date]),
                      context_limit)
         IN  [recent_messages |->
                  [i \in 1..Len(recent_messages) |-> FormatMessage(recent_messages[i])],
              similar_messages |->
                  IF Strip(current_message) = "" THEN <<>>
                  ELSE FindSimilarMessagesSecure(session_id, chat_id, current_message,
                           ContextSimilarLimit, ContextThreshold, FALSE, {}, env),
              rag_enhanced |-> TRUE]

\* cleanup_expired_messages: [val, messages] after the call. Fault "range":
\* the client library refuses the ISO string as the bound of models.Range.
ExpiredFilter(p) ==
    p.retention_expires # None /\ p.retention_expires < now

CleanupExpiredMessages(env) ==
    IF ~qdrant_client \/ ~Ok(env, "range") \/ ~Ok(env, "scroll")
    THEN [val |-> 0, messages |-> messages]
    ELSE LET expired_results ==
                 Scroll(messages, [p \in messages |-> ExpiredFilter(p)],
                        SweepScrollLimit)
             expired_ids == {expired_results[i].id : i \in 1..Len(expired_results)}
         IN  IF expired_ids = {} \/ ~Ok(env, "delete")
             THEN [val |-> 0, messages |-> messages]
             ELSE [val |-> Len(expired_results),
                   messages |-> DeleteByIds(messages, expired_ids)]

\* clear_chat_data_secure: [val, messages, summaries] after the call.
ClearChatDataSecure(session_id, chat_id, env) ==
    IF ~qdrant_client \/ ~Ok(env, "delete")
    THEN [val |-> FALSE, messages |-> messages, summaries |-> summaries]
    ELSE [val |-> TRUE,
          messages |-> DeleteByFilter(messages,
                           [p \in messages |-> ScopeFilter(p, session_id, chat_id)]),
          summaries |-> summaries]

\* find_similar_chunks when the summaries collection holds `collection`: the
\* list returned.
SearchChunks(collection, session_id, chat_id, query_text, limit, env) ==
    IF ~qdrant_client \/ ~ai_client THEN <<>>
    ELSE IF GenerateEmbedding(query_text, env) = None THEN <<>>
    ELSE IF ~Ok(env, "search") THEN <<>>
    ELSE Search(collection, env.cscore,
                [p \in collection |-> ScopeFilter(p, session_id, chat_id)],
                limit, ChunkThreshold)

\* find_similar_chunks: the list returned.
FindSimilarChunks(session_id, chat_id, query_text, limit, env) ==
    SearchChunks(summaries, session_id, chat_id, query_text, limit, env)

\* get_messages_for_period: the list returned. dates is the list of days
\* asked for. Fault "native": the scroll with the day_bucket filter raises;
\* fault "scroll": the scroll over the whole scope raises.
GetMessagesForPeriod(session_id, chat_id, dates, limit, env) ==
    IF ~qdrant_client THEN <<>>
    ELSE IF Ok(env, "native")
    THEN LET search_result ==
                 Scroll(messages,
                        [p \in messages |->
                            /\ ScopeFilter(p, session_id, chat_id)
                            /\ p.day_bucket \in Range(dates)],
                        limit)
         IN  [i \in 1..Len(search_result) |-> FormatMessage(search_result[i])]
    ELSE IF Ok(env, "scroll")
    THEN LET search_result ==
                 Scroll(messages,
                        [p \in messages |-> ScopeFilter(p, session_id, chat_id)],
                        limit)
         IN  SelectSeq([i \in 1..Len(search_result) |-> FormatMessage(search_result[i])],
                       LAMBDA m : DayOf(m.date) \in Range(dates))
    ELSE <<>>

(***************************************************************************)
(* SecureTelegramRAGEngine: the Period Summarizer.                         *)
(***************************************************************************)
MaxChunksDefault == 3      \* get_period_summary: max_chunks=3

\* sep.join(strs)
RECURSIVE JoinStrings(_, _)
JoinStrings(strs, sep) ==
    IF strs = <<>> THEN ""
    ELSE IF Len(strs) = 1 THEN strs[1]
    ELSE strs[1] \o sep \o JoinStrings(Tail(strs), sep)

\* [d.strftime("%Y-%m-%d") for d in dates]
DayBuckets(dates) == [i \in 1..Len(dates) |-> ToString(dates[i])]

\* The string uuid5 hashes in _store_period_summary:
\* f"{session_id}_{chat_id}_{period_str}"
PeriodPointId(session_id, chat_id, dates) ==
    session_id \o "_" \o ToString(chat_id) \o "_"
    \o JoinStrings(DayBuckets(dates), "_")

\* _store_period_summary: [val, summaries, initialized] after the call.
StorePeriodSummary(session_id, chat_id, dates, summary_text, env) ==
    LET init == EnsureCollectionsExist(env)
    IN  IF ~qdrant_client \/ ~ai_client
        THEN [val |-> FALSE, summaries |-> summaries,
              initialized |-> collections_initialized]
        ELSE IF GenerateEmbedding(summary_text, env) = None \/ ~Ok(env, "upsert")
        THEN [val |-> FALSE, summaries |-> summaries, initialized |-> init]
        ELSE [val |-> TRUE,
              summaries |->
                  Upsert(summaries,
                         [id |-> PeriodPointId(session_id, chat_id, dates),
                          session_id |-> session_id,
                          chat_id |-> chat_id,
                          period_dates |-> dates,
                          summary |-> summary_text,
                          created_at |-> now]),
              initialized |-> init]

\* msg.get("day_bucket", "unknown")
DayKey(msg) ==
    IF "day_bucket" \in DOMAIN msg THEN ToString(msg.day_bucket) ELSE "unknown"

\* The keys of days_groups, in the order in which the dict got them.
RECURSIVE DaysGroups(_)
DaysGroups(msgs) ==
    IF msgs = <<>> THEN <<>>
    ELSE LET front == DaysGroups(SubSeq(msgs, 1, Len(msgs) - 1))
             day == DayKey(msgs[Len(msgs)])
         IN  IF day \in Range(front) THEN front ELSE Append(front, day)

\* Steps 2 and 3 of get_period_summary, when no stored summary was found:
\* the days' digests of period_messages are joined, stored as a new chunk
\* and returned. generate_text answers env.digest for every day.
GeneratePeriodSummary(session_id, chat_id, dates, env, period_messages, days) ==
    IF period_messages = <<>> \/ ~ai_client \/ ~Ok(env, "llm")
    THEN [val |-> None, summaries |-> summaries,
          initialized |-> EnsureCollectionsExist(env)]
    ELSE [val |-> JoinStrings([i \in 1..Len(days) |->
                                  "[" \o days[i] \o "]: " \o Strip(env.digest)],
                              "\n---\n"),
          summaries |->
              StorePeriodSummary(session_id, chat_id, dates,
                  JoinStrings([i \in 1..Len(days) |->
                                  "[" \o days[i] \o "]: " \o Strip(env.digest)],
                              "\n---\n"),
                  env).summaries,
          initialized |-> EnsureCollectionsExist(env)]

\* Step 1 of get_period_summary: `found` are the stored chunks of the scope
\* that the search for the dates returned and that have a summary.
ReusePeriodSummary(session_id, chat_id, dates, env, found, period_messages) ==
    IF found # <<>>
    THEN [val |-> JoinStrings([i \in 1..Len(found) |-> found[i].payload.summary],
                              "\n---\n"),
          summaries |-> summaries, initialized |-> collections_initialized]
    ELSE GeneratePeriodSummary(session_id, chat_id, dates, env, period_messages,
                               DaysGroups(period_messages))

\* get_period_summary: [val, summaries, initialized] after the call; val is
\* the summary text or None.
GetPeriodSummary(session_id, chat_id, dates, max_chunks, env) ==
    ReusePeriodSummary(session_id, chat_id, dates, env,
        SelectSeq(FindSimilarChunks(session_id, chat_id,
                                    JoinStrings(DayBuckets(dates), " "),
                                    max_chunks, env),
                  LAMBDA c : c.payload.summary # ""),
        GetMessagesForPeriod(session_id, chat_id, dates, PeriodScrollLimit, env))

(***************************************************************************)
(* rag_pipeline.py: the Context Assembler. A query is the sequence of its  *)
(* lower-cased words; the Russian keywords are written in Latin letters.   *)
(***************************************************************************)
MonthDays == 30            \* _detect_time_range: range(30)
AssemblerSimilarLimit == 5 \* build_context_for_ai: limit=5
AssemblerThreshold == 25   \* build_context_for_ai: score_threshold=0.25
DefaultChunkLimit == 3     \* build_context_for_ai: chunk_limit=3

QStatus == <<"what's", "the", "project", "status">>
QZeroDays == <<"0", "dney", "nazad">>
Queries == {QStatus, QZeroDays}

QueryText(query) == JoinStrings(query, " ")

\* `phrase in query_lower`, for a phrase of whole words.
Contains(query, phrase) ==
    \E i \in 1..(Len(query) - Len(phrase) + 1) :
        SubSeq(query, i, i + Len(phrase) - 1) = phrase

\* [(now - timedelta(days=x)).date() for x in range(from, to)]
DaysBack(from, to) ==
    [i \in 1..Max(0, to - from) |-> DayOf(now) - (from + i - 1)]

\* int(match.group(1)) of the relative patterns
Amounts == [t \in {"0", "1", "2"} |->
               CASE t = "0" -> 0 [] t = "1" -> 1 [] t = "2" -> 2]

RelativeMatch(query, units) ==
    \E i \in 1..(Len(query) - 2) :
        query[i] \in DOMAIN Amounts /\ query[i + 1] \in units /\ query[i + 2] = "nazad"

RelativeAmount(query, units) ==
    LET i == CHOOSE j \in 1..(Len(query) - 2) :
                 /\ query[j] \in DOMAIN Amounts /\ query[j + 1] \in units
                 /\ query[j + 2] = "nazad"
                 /\ \A k \in 1..(j - 1) :
                        ~(query[k] \in DOMAIN Amounts /\ query[k + 1] \in units
                          /\ query[k + 2] = "nazad")
    IN  Amounts[query[i]]

\* _detect_time_range: dates and period_type of the result.
DetectTimeRange(query) ==
    IF Contains(query, <<"segodnya">>) THEN
             [dates |-> DaysBack(0, 1), period_type |-> "den"]
    ELSE IF Contains(query, <<"vchera">>) THEN
             [dates |-> DaysBack(1, 2), period_type |-> "den"]
    ELSE IF Contains(query, <<"pozavchera">>) THEN
             [dates |-> DaysBack(2, 3), period_type |-> "den"]
    ELSE IF Contains(query, <<"na", "etoy", "nedele">>) THEN
             [dates |-> DaysBack(0, DefaultWindowDays), period_type |-> "nedelya"]
    ELSE IF Contains(query, <<"na", "proshloy", "nedele">>) THEN
             [dates |-> DaysBack(DefaultWindowDays, 2 * DefaultWindowDays),
              period_type |-> "nedelya"]
    ELSE IF Contains(query, <<"v", "etom", "mesyatse">>) THEN
             [dates |-> DaysBack(0, MonthDays), period_type |-> "mesyats"]
    ELSE IF Contains(query, <<"v", "proshlom", "mesyatse">>) THEN
             [dates |-> DaysBack(MonthDays, 2 * MonthDays), period_type |-> "mesyats"]
    ELSE IF RelativeMatch(query, {"dney", "dnya", "den"}) THEN
             [dates |-> DaysBack(0, RelativeAmount(query, {"dney", "dnya", "den"})),
              period_type |-> "den"]
    ELSE IF RelativeMatch(query, {"nedel", "nedeli", "nedelyu"}) THEN
             [dates |-> DaysBack(0, DefaultWindowDays
                                    * RelativeAmount(query, {"nedel", "nedeli", "nedelyu"})),
              period_type |-> "nedelya"]
    ELSE IF RelativeMatch(query, {"mesyatsev", "mesyatsa", "mesyats"}) THEN
             [dates |-> DaysBack(0, MonthDays
                                    * RelativeAmount(query, {"mesyatsev", "mesyatsa", "mesyats"})),
              period_type |-> "mesyats"]
    ELSE IF \E w \in {"ranshe", "proshlyy", "proshlaya", "proshlye", "proshlom",
                   "proshlogo", "nazad"} : Contains(query, <<w>>) THEN
             [dates |-> DaysBack(0, MonthDays), period_type |-> "mesyats"]
    ELSE
             [dates |-> DaysBack(0, DefaultWindowDays), period_type |-> "nedelya"]

\* One element of prompt_sections: a label line ("header"), a line of period
\* information ("info"), the text below a label ("body", its lines in body),
\* or the closing "VOPROS: {query}\nOTVET:" ("question").
Section(kind, label, body) == [kind |-> kind, label |-> label, body |-> body]

\* "\n".join([s for s in prompt_sections if s]): the sections that are not
\* the empty string. Only a body of no lines is the empty string.
NonEmptySections(prompt_sections) ==
    SelectSeq(prompt_sections, LAMBDA x : ~(x.kind = "body" /\ x.body = <<>>))

\* Step 3 of build_context_for_ai: the lines of the recent-messages block.
RecentBlockLines(recent_messages) ==
    [i \in 1..Len(recent_messages) |->
        [ts |-> TimeOfDay(recent_messages[i].date),
         text |-> recent_messages[i].text]]

\* Step 4: the lines of the similar-messages block. The stored payload has
\* no context_hint.
SimLines(similar) ==
    [i \in 1..Len(similar) |-> [score |-> similar[i].score, context_hint |-> ""]]

\* Step 5: the lines of the chunks block.
ChunkLines(chunks) ==
    [i \in 1..Len(chunks) |->
        [score |-> chunks[i].score, summary |-> chunks[i].payload.summary]]

\* Step 6: prompt_sections.
PromptSections(query, time_info, period_messages, period_summary, recent_block_lines, chunk_lines, sim_lines) ==
    (IF time_info.dates # <<>>
     THEN <<Section("info", "ZAPROSHENNYY PERIOD", <<time_info.period_type>>),
            Section("info", "VSEGO SOOBSHCHENIY ZA PERIOD", <<Len(period_messages)>>)>>
          \o (IF period_summary # None /\ period_summary # ""
              THEN <<Section("header", "OBSHCHIY KONTEKST PERIODA", <<>>),
                     Section("body", "OBSHCHIY KONTEKST PERIODA", <<period_summary>>)>>
              ELSE <<>>)
     ELSE <<>>)
    \o <<Section("header", "POSLEDNIE SOOBSHCHENIYA", <<>>),
         Section("body", "POSLEDNIE SOOBSHCHENIYA", recent_block_lines),
         Section("header", "RELEVANTNYE OTRYVKI", <<>>),
         Section("body", "RELEVANTNYE OTRYVKI", chunk_lines),
         Section("header", "POKHOZHIE SOOBSHCHENIYA", <<>>),
         Section("body", "POKHOZHIE SOOBSHCHENIYA", sim_lines),
         Section("question", "VOPROS", <<QueryText(query)>>)>>

\* Steps 6 and 7: the dict build_context_for_ai returns.
ComposeContext(query, time_info, period_messages, period_summary, recent_block_lines, chunk_lines, similar) ==
    [prompt |-> NonEmptySections(
                    PromptSections(query, time_info, period_messages,
                                   period_summary, recent_block_lines,
                                   chunk_lines, SimLines(similar))),
     sections |-> [recent |-> Len(recent_block_lines),
                   similar |-> Len(similar),
                   chunks |-> Len(chunk_lines),
                   period_messages |->
                       IF time_info.dates # <<>> THEN Len(period_messages) ELSE 0,
                   has_period_summary |->
                       period_summary # None /\ period_summary # ""]]

\* Steps 3 to 7, once step 2 has got the recent messages, the messages and
\* the summary of the period, and left the summaries collection as
\* `collection`.
BuildFrom(session_id, chat_id, query, chunk_limit, env, time_info, recent_messages, period_messages, period_summary, collection) ==
    ComposeContext(query, time_info, period_messages, period_summary,
        RecentBlockLines(recent_messages),
        ChunkLines(SelectSeq(
            SearchChunks(collection, session_id, chat_id, QueryText(query),
                         chunk_limit, [env EXCEPT !.cscore = env.qscore]),
            LAMBDA c : c.payload.summary # "")),
        FindSimilarMessagesSecure(session_id, chat_id, QueryText(query),
            AssemblerSimilarLimit, AssemblerThreshold, FALSE,
            Range(time_info.dates), env))

\* Step 2 when a period was detected: period_messages and summary are what
\* get_messages_for_period and get_period_summary gave.
BuildForPeriod(session_id, chat_id, query, recent_limit, chunk_limit, env, time_info, period_messages, summary) ==
    [val |-> BuildFrom(session_id, chat_id, query, chunk_limit, env, time_info,
                       LastN(period_messages, recent_limit), period_messages,
                       summary.val, summary.summaries),
     summaries |-> summary.summaries,
     initialized |-> InitializedAfterFind(QueryText(query), env)
                     \/ EnsureCollectionsExist(env)]

\* recent_ctx.get("recent_messages", [])
RecentOf(recent_ctx) ==
    IF "recent_messages" \in DOMAIN recent_ctx THEN recent_ctx.recent_messages
    ELSE <<>>

\* Step 2 when no period was detected: recent_messages are the caller's or
\* those of get_enhanced_context_secure, which sets _collections_initialized.
BuildForRecent(session_id, chat_id, query, recent_limit, chunk_limit, provided_recent, env, time_info, recent_messages) ==
    [val |-> BuildFrom(session_id, chat_id, query, chunk_limit, env, time_info,
                       recent_messages, recent_messages, None, summaries),
     summaries |-> summaries,
     initialized |-> InitializedAfterFind(QueryText(query), env)
                     \/ provided_recent = <<>>]

\* build_context_for_ai once _detect_time_range gave time_info.
BuildForTimeInfo(session_id, chat_id, query, recent_limit, chunk_limit, provided_recent, env, time_info) ==
    IF time_info.dates # <<>>
    THEN BuildForPeriod(session_id, chat_id, query, recent_limit, chunk_limit,
             env, time_info,
             GetMessagesForPeriod(session_id, chat_id, time_info.dates,
                                  PeriodScrollLimit, env),
             GetPeriodSummary(session_id, chat_id, time_info.dates,
                              MaxChunksDefault, env))
    ELSE BuildForRecent(session_id, chat_id, query, recent_limit, chunk_limit,
             provided_recent, env, time_info,
             IF provided_recent # <<>> THEN LastN(provided_recent, recent_limit)
             ELSE RecentOf(GetEnhancedContextSecure(session_id, chat_id, "",
                                                    recent_limit, env)))

\* build_context_for_ai: [val, summaries, initialized] after the call; val is
\* the dict returned. provided_recent is <<>> for None or []. No engine call
\* raises, so the except branches are never entered.
BuildContextForAI(session_id, chat_id, query, recent_limit, chunk_limit, provided_recent, env) ==
    BuildForTimeInfo(session_id, chat_id, query, recent_limit, chunk_limit,
                     provided_recent, env, DetectTimeRange(query))

(***************************************************************************)
(* The callers of the engine and of the assembler, and what they pass.     *)
(***************************************************************************)
StartDay == 10          \* the calendar day on which a behaviour starts

\* The last instant of StartDay that the model tells apart.
Now0 == StartDay * TicksPerDay + (TicksPerDay - 1)

\* datetime.isoformat() of a naive datetime, as the Telegram client gives it
IsoDate(ts) == [fmt |-> "iso", ts |-> ts, sep |-> "T", offset |-> "none"]

IsoWith(ts, sep, offset) ==
    [fmt |-> "iso", ts |-> ts, sep |-> sep, offset |-> offset]

\* The message dicts handed to store_message_securely: the three messages of
\* one conversation, in the order of their timestamps on one day, and
\* messages that differ from them in one respect.
InputMessages ==
    {[id |-> 1, text |-> TextHi,      date |-> IsoDate(Now0 - 2)],
     [id |-> 2, text |-> TextProject, date |-> IsoDate(Now0 - 1)],
     [id |-> 3, text |-> TextRag,     date |-> IsoDate(Now0)],
     [id |-> 2, text |-> TextRag,
      date |-> IsoWith(Now0 - TicksPerDay, "T", "plus")],
     [id |-> 3, text |-> TextRag,     date |-> [fmt |-> "bad"]],
     [id |-> 2, text |-> " ok ",      date |-> [fmt |-> "rel", minutes |-> 1]],
     [id |-> 3, text |-> "",          date |-> [fmt |-> "empty"]]}

\* The scope on whose behalf the lookups of the model are made; messages are
\* stored under every scope.
Callers == {<<"s1", 42>>}

IdsOf(collection) == {p.id : p \in collection}

NoResult == [op |-> "none"]

\* The strings a message's date is given as: the instant one day before the
\* start in every ISO form, relative dates of this day and of the day before,
\* and dates that cannot be parsed.
InputDates ==
    {IsoWith(Now0 - TicksPerDay, sep, offset) :
         sep \in {"T", " "}, offset \in {"none", "plus", "minus"}}
    \cup {IsoWith(Now0 - TicksPerDay, "T", "Z"),
          [fmt |-> "rel", minutes |-> 1],
          [fmt |-> "rel", minutes |-> TicksPerDay],
          [fmt |-> "bad"], [fmt |-> "empty"]}

\* One message of the conversation under each of these dates.
DatedMessages ==
    {[id |-> 2, text |-> TextProject, date |-> date] : date \in InputDates}

\* store_message_securely(session_id, chat_id, message), called for one of
\* `scopes` with one of `inputs`
StoreFrom(scopes, inputs) ==
    \E scope \in scopes, message \in inputs :
    \E env \in Envs({"ensure", "emb", "upsert"}, {None}, {}, {}, {}) :
        LET r == StoreMessageSecurely(scope[1], scope[2], message, env)
        IN  /\ Cardinality(r.messages) <= MaxPoints
            /\ messages' = r.messages
            /\ collections_initialized' = r.initialized
            /\ ret' = [op |-> "store_message_securely",
                       session_id |-> scope[1], chat_id |-> scope[2],
                       message_id |-> message.id,
                       text |-> message.text,
                       date |-> message.date,
                       existed |-> PointId(scope[1], scope[2], message.id)
                                       \in IdsOf(messages),
                       embedded |-> GenerateEmbedding(message.text, env) # None,
                       unchanged |-> r.messages = messages,
                       val |-> r.val]
            /\ UNCHANGED <<qdrant_client, ai_client, summaries, now, advances>>
            /\ UNCHANGED agentVars

StoreUnder(scopes) == StoreFrom(scopes, InputMessages)

\* The messages a rolling summary covers:
\* get_enhanced_context_secure(..., context_limit=40)
RollingWindow == 40

\* The messages a chat receives in a behaviour of SpecIngest.
MaxIngested == 2 * RollingWindow

\* store_message_securely(session_id, chat_id, message), called with the
\* next new message of the chat.
Ingest ==
    \E scope \in Callers :
    \E env \in Envs({"ensure", "emb", "upsert"}, {None}, {}, {}, {}) :
        LET stored == {p \in messages : ScopeFilter(p, scope[1], scope[2])}
            message == [id |-> Cardinality(stored) + 1, text |-> TextProject,
                        date |-> IsoDate(now)]
            r == StoreMessageSecurely(scope[1], scope[2], message, env)
        IN  /\ Cardinality(stored) < MaxIngested
            /\ messages' = r.messages
            /\ collections_initialized' = r.initialized
            /\ ret' = [op |-> "store_message_securely",
                       session_id |-> scope[1], chat_id |-> scope[2],
                       message_id |-> message.id, val |-> r.val]
            /\ UNCHANGED <<qdrant_client, ai_client, summaries, now, advances>>
            /\ UNCHANGED agentVars

Store == StoreUnder(Scopes)

StoreDated == StoreFrom(Callers, DatedMessages)

DefaultLimit == 5        \* find_similar_messages_secure: limit=5
DefaultThreshold == 70   \* find_similar_messages_secure: score_threshold=0.7

\* find_similar_messages_secure(session_id, chat_id, query_text, limit,
\*                              score_threshold, include_other_chats, day_buckets)
FindSimilar ==
    \E scope \in Callers, query \in {<<>>, QStatus}, limit \in {1, DefaultLimit},
       score_threshold \in {DefaultThreshold},
       include_other_chats \in BOOLEAN,
       day_buckets \in {{}, {DayOf(Now0)}} :
    \E env \in Envs({"emb", "search"}, {None},
                    IdsOf({p \in messages :
                              SimilarFilter(p, scope[1], scope[2],
                                            include_other_chats, day_buckets)}),
                    {}, {}) :
        /\ ret' = [op |-> "find_similar_messages_secure",
                   session_id |-> scope[1], chat_id |-> scope[2],
                   limit |-> limit, score_threshold |-> score_threshold,
                   include_other_chats |-> include_other_chats,
                   day_buckets |-> day_buckets,
                   val |-> FindSimilarMessagesSecure(scope[1], scope[2],
                               QueryText(query), limit, score_threshold,
                               include_other_chats, day_buckets, env)]
        /\ collections_initialized' = InitializedAfterFind(QueryText(query), env)
        /\ UNCHANGED <<qdrant_client, ai_client, messages, summaries, now, advances>>
        /\ UNCHANGED agentVars

\* clear_chat_data_secure(session_id, chat_id)
ClearOf(scopes) ==
    \E scope \in scopes :
    \E env \in Envs({"delete"}, {None}, {}, {}, {}) :
        LET r == ClearChatDataSecure(scope[1], scope[2], env)
        IN  /\ messages' = r.messages
            /\ summaries' = r.summaries
            /\ ret' = [op |-> "clear_chat_data_secure",
                       session_id |-> scope[1], chat_id |-> scope[2],
                       had_points |-> \E p \in messages :
                                          ScopeFilter(p, scope[1], scope[2]),
                       val |-> r.val]
            /\ UNCHANGED <<qdrant_client, ai_client, collections_initialized,
                           now, advances>>
            /\ UNCHANGED agentVars

Clear == ClearOf(Callers)

\* get_period_summary(session_id, chat_id, dates), called for one of `periods`
SummarizePeriod(periods) ==
    \E scope \in Callers, dates \in periods :
    \E env \in Envs({"emb", "search", "native", "scroll", "llm", "ensure", "upsert"},
                    Digests, {},
                    IdsOf({c \in summaries : ScopeFilter(c, scope[1], scope[2])}),
                    {}) :
        LET r == GetPeriodSummary(scope[1], scope[2], dates, MaxChunksDefault, env)
        IN  /\ Cardinality(r.summaries) <= MaxChunks
            /\ summaries' = r.summaries
            /\ collections_initialized' = r.initialized
            /\ ret' = [op |-> "get_period_summary",
                       session_id |-> scope[1], chat_id |-> scope[2],
                       dates |-> dates, faults |-> env.faults, val |-> r.val]
            /\ UNCHANGED <<qdrant_client, ai_client, messages, now, advances>>
            /\ UNCHANGED agentVars

PeriodSummary == SummarizePeriod({DaysBack(0, 2)})

\* cleanup_expired_messages()
Sweep ==
    \E env \in Envs({"range", "scroll", "delete"}, {None}, {}, {}, {}) :
        LET r == CleanupExpiredMessages(env)
        IN  /\ messages' = r.messages
            /\ ret' = [op |-> "cleanup_expired_messages",
                       before |-> messages, val |-> r.val]
            /\ UNCHANGED <<qdrant_client, ai_client, collections_initialized,
                           summaries, now, advances>>
            /\ UNCHANGED agentVars

DefaultContextLimit == 10   \* get_enhanced_context_secure: context_limit=10

\* get_enhanced_context_secure(session_id, chat_id, current_message, context_limit)
EnhancedContext ==
    \E scope \in Callers, current_message \in {<<>>, QStatus},
       context_limit \in {1, DefaultContextLimit} :
    \E env \in Envs({"ensure", "scroll", "emb", "search"}, {None},
                    IdsOf({p \in messages : ScopeFilter(p, scope[1], scope[2])}),
                    {}, {}) :
        /\ ret' = [op |-> "get_enhanced_context_secure",
                   session_id |-> scope[1], chat_id |-> scope[2],
                   faults |-> env.faults, context_limit |-> context_limit,
                   val |-> GetEnhancedContextSecure(scope[1], scope[2],
                               QueryText(current_message), context_limit, env)]
        /\ collections_initialized' = TRUE
        /\ UNCHANGED <<qdrant_client, ai_client, messages, summaries, now, advances>>
        /\ UNCHANGED agentVars

\* get_messages_for_period(session_id, chat_id, dates)
PeriodFetchOf(periods, limits) ==
    \E scope \in Callers, dates \in periods, limit \in limits :
    \E env \in Envs({"ensure", "native", "scroll"}, {None}, {}, {}, {}) :
        /\ ret' = [op |-> "get_messages_for_period",
                   session_id |-> scope[1], chat_id |-> scope[2],
                   dates |-> dates, limit |-> limit,
                   faults |-> env.faults,
                   val |-> GetMessagesForPeriod(scope[1], scope[2], dates,
                                                limit, env)]
        /\ collections_initialized' = EnsureCollectionsExist(env)
        /\ UNCHANGED <<qdrant_client, ai_client, messages, summaries, now, advances>>
        /\ UNCHANGED agentVars

\* get_messages_for_period(session_id, chat_id, dates), limit left at its
\* default
PeriodFetch == PeriodFetchOf({DaysBack(0, 2)}, {PeriodScrollLimit})

\* find_similar_chunks(session_id, chat_id, query_text)
ChunkSearch ==
    \E scope \in Callers, query \in {<<>>, QStatus} :
    \E env \in Envs({"emb", "search"}, {None}, {},
                    IdsOf({c \in summaries : ScopeFilter(c, scope[1], scope[2])}),
                    {}) :
        /\ ret' = [op |-> "find_similar_chunks",
                   session_id |-> scope[1], chat_id |-> scope[2],
                   faults |-> env.faults,
                   val |-> FindSimilarChunks(scope[1], scope[2], QueryText(query),
                                             DefaultChunkLimit, env)]
        /\ UNCHANGED <<qdrant_client, ai_client, collections_initialized,
                       messages, summaries, now, advances>>
        /\ UNCHANGED agentVars

\* Time passes: by one tick, or by more than the retention period.
ClockSteps == {1, (RetentionDays + 1) * TicksPerDay}

AdvanceClock ==
    \E step \in ClockSteps :
        /\ advances < MaxAdvances
        /\ now' = now + step
        /\ advances' = advances + 1
        /\ ret' = NoResult
        /\ UNCHANGED <<qdrant_client, ai_client, collections_initialized,
                       messages, summaries>>
        /\ UNCHANGED agentVars

DefaultRecentLimit == 20   \* build_context_for_ai: recent_limit=20

\* What build_context_for_ai leaves behind when its engine calls gave r.
BuildContextReturns(scope, query, recent_limit, provided_recent, r) ==
    /\ Cardinality(r.summaries) <= MaxChunks
    /\ summaries' = r.summaries
    /\ collections_initialized' = r.initialized
    /\ ret' = [op |-> "build_context_for_ai",
               session_id |-> scope[1], chat_id |-> scope[2],
               query |-> query, recent_limit |-> recent_limit,
               provided_recent |-> provided_recent,
               val |-> r.val]
    /\ UNCHANGED <<qdrant_client, ai_client, messages, now, advances>>
    /\ UNCHANGED agentVars

\* The ids of the summary chunks build_context_for_ai may search: those of
\* the scope and the one get_period_summary may store.
ChunkIdsFor(scope, time_info) ==
    IdsOf({c \in summaries : ScopeFilter(c, scope[1], scope[2])})
    \cup {PeriodPointId(scope[1], scope[2], time_info.dates)}

\* request.context_messages, which the AI endpoint passes as provided_recent:
\* none, or the last message the client shows.
ProvidedRecents ==
    {<<>>, <<[id |-> 3, text |-> TextRag, date |-> Now0]>>}

\* build_context_for_ai(session_id, chat_id, query, provided_recent=...)
BuildContext ==
    \E scope \in Callers, query \in Queries, recent_limit \in {DefaultRecentLimit} :
    \E provided_recent \in ProvidedRecents :
    \E env \in Envs({"emb", "search", "native", "scroll", "llm"},
                    {CHOOSE d \in Digests : TRUE},
                    IdsOf({p \in messages : ScopeFilter(p, scope[1], scope[2])}),
                    IdsOf({c \in summaries : ScopeFilter(c, scope[1], scope[2])}),
                    ChunkIdsFor(scope, DetectTimeRange(query))) :
        BuildContextReturns(scope, query, recent_limit, provided_recent,
            BuildContextForAI(scope[1], scope[2], query, recent_limit,
                              DefaultChunkLimit, provided_recent, env))

\* The engine after SecureTelegramRAGEngine.__init__: either client may be
\* missing, the collections are not initialized and hold whatever earlier
\* processes left; the model starts them empty.
Init ==
    /\ qdrant_client \in BOOLEAN
    /\ ai_client \in BOOLEAN
    /\ collections_initialized = FALSE
    /\ messages = {}
    /\ summaries = {}
    /\ now = Now0
    /\ advances = 0
    /\ ret = NoResult
    /\ pc = "idle"
    /\ state = <<>>
    /\ initial_state = <<>>
    /\ ran = <<>>
    /\ raised = <<>>
    /\ caught = <<>>
    /\ response = NoResult
    /\ heap = <<>>
    /\ runs = <<>>
    /\ dialog_cache = <<>>
    /\ recent_suggestions = <<>>

\* The Message Store: ingestion and similarity search.
NextSearch == Store \/ FindSimilar

SpecSearch == Init /\ [][NextSearch]_vars

\* The Message Store and the Period Summarizer under clear.
NextClear == Store \/ PeriodSummary \/ Clear

SpecClear == Init /\ [][NextClear]_vars

\* The Period Summarizer asked for this day, for the day before and for both,
\* over the messages of its caller.
Periods == {DaysBack(0, 1), DaysBack(1, 2), DaysBack(0, 2)}

NextSummarizer == StoreUnder(Callers) \/ SummarizePeriod(Periods)

SpecSummarizer == Init /\ [][NextSummarizer]_vars

\* The Message Store receiving the messages of one chat, one after another.
SpecIngest == Init /\ [][Ingest]_vars

\* The Message Store asked for the recent messages of a chat that received
\* three messages, one after another.
ThreadMessages ==
    {[id |-> 1, text |-> TextProject, date |-> IsoDate(Now0 - 2)],
     [id |-> 2, text |-> TextRag,     date |-> IsoDate(Now0 - 1)],
     [id |-> 3, text |-> TextProject, date |-> IsoDate(Now0)]}

NextRecent == StoreFrom(Callers, ThreadMessages) \/ EnhancedContext

SpecRecent == Init /\ [][NextRecent]_vars

\* The Message Store asked for the messages of today, of a chat that received
\* a message yesterday and two today.
TwoDayMessages ==
    {[id |-> 1, text |-> TextProject, date |-> IsoDate(Now0 - TicksPerDay)],
     [id |-> 2, text |-> TextRag,     date |-> IsoDate(Now0 - 1)],
     [id |-> 3, text |-> TextProject, date |-> IsoDate(Now0)]}

\* The limits the caller passes: scaled to a store of MaxPoints points.
PeriodLimits == {1, PeriodScrollLimit}

NextPeriod ==
    \/ StoreFrom(Callers, TwoDayMessages)
    \/ PeriodFetchOf({DaysBack(0, 1)}, PeriodLimits)

SpecPeriod == Init /\ [][NextPeriod]_vars

\* store_message_securely called when the messages collection holds
\* `collection`: the collection after the call.
StoredInto(collection, session_id, chat_id, message, env) ==
    LET message_text == Strip(message.text)
    IN  IF ~qdrant_client \/ ~ai_client THEN collection
        ELSE IF message_text = "" \/ Len(message_text) < MinTextLength THEN collection
        ELSE IF GenerateEmbedding(message_text, env) = None THEN collection
        ELSE IF ~Ok(env, "upsert") THEN collection
        ELSE Upsert(collection, MessagePoint(session_id, chat_id, message))

\* sync_chat_history, "for msg in messages: await store_message_securely"
RECURSIVE StoreAll(_, _, _, _, _)
StoreAll(collection, session_id, chat_id, batch, env) ==
    IF batch = <<>> THEN collection
    ELSE StoreAll(StoredInto(collection, session_id, chat_id, Head(batch), env),
                  session_id, chat_id, Tail(batch), env)

SyncSkipDays == 30           \* sync_chat_history: range(30)

\* date.weekday() of a day, day 0 being a Monday
Weekday(day) == day % 7

\* def _generate_and_store_summary(self, session_id, chat_id)
SummaryParameters == <<"session_id", "chat_id">>

\* A call of _generate_and_store_summary with the arguments args raises
\* TypeError unless they are as many as its parameters.
SummaryCallRaises(args) == Len(args) # Len(SummaryParameters)

\* sync_chat_history: [val, skipped, weeks, messages, initialized] after the
\* call. weeks are the Mondays of the weeks with a message of the batch.
SyncChatHistory(session_id, chat_id, batch, force_resync, env) ==
    LET existing ==
            IF force_resync THEN <<>>
            ELSE GetMessagesForPeriod(session_id, chat_id,
                                      DaysBack(0, SyncSkipDays),
                                      PeriodScrollLimit, env)
        ensured == qdrant_client /\ (~force_resync \/ (ai_client /\ batch # <<>>))
        init == IF ensured THEN EnsureCollectionsExist(env)
                ELSE collections_initialized
        days_with_messages ==
            {DayOf(ExtractSafeMetadata(batch[i]).date) : i \in DOMAIN batch}
        weeks == {day - Weekday(day) : day \in days_with_messages}
        stored == StoreAll(messages, session_id, chat_id, batch, env)
    IN  IF existing # <<>>
        THEN [val |-> TRUE, skipped |-> TRUE, weeks |-> {},
              messages |-> messages, initialized |-> init]
        ELSE IF \E week \in weeks :
                    SummaryCallRaises(<<session_id, chat_id,
                                        {day \in days_with_messages :
                                            day - Weekday(day) = week}>>)
        THEN [val |-> FALSE, skipped |-> FALSE, weeks |-> weeks,
              messages |-> stored, initialized |-> init]
        ELSE [val |-> TRUE, skipped |-> FALSE, weeks |-> weeks,
              messages |-> stored, initialized |-> init]

\* sync_chat_history(session_id, chat_id, messages, force_resync)
Sync ==
    \E scope \in Callers, n \in 0..MaxPoints, force_resync \in BOOLEAN :
    \E batch \in [1..n -> TwoDayMessages] :
    \E env \in Envs({"ensure", "native", "scroll", "emb", "upsert"}, {None}, {}, {}, {}) :
        LET r == SyncChatHistory(scope[1], scope[2], batch, force_resync, env)
        IN  /\ Cardinality(r.messages) <= MaxPoints
            /\ messages' = r.messages
            /\ collections_initialized' = r.initialized
            /\ ret' = [op |-> "sync_chat_history",
                       session_id |-> scope[1], chat_id |-> scope[2],
                       batch |-> batch, force_resync |-> force_resync,
                       faults |-> env.faults, skipped |-> r.skipped,
                       weeks |-> r.weeks, val |-> r.val]
            /\ UNCHANGED <<qdrant_client, ai_client, summaries, now, advances>>
            /\ UNCHANGED agentVars

\* The Message Store receiving single messages and synced batches of a chat.
NextSync == StoreFrom(Callers, TwoDayMessages) \/ Sync

SpecSync == Init /\ [][NextSync]_vars

\* The Message Store holding, and clearing, the chats of two sessions.
NextScopes == StoreFrom(Scopes, ThreadMessages) \/ ClearOf(Scopes)

SpecScopes == Init /\ [][NextScopes]_vars

\* The Message Store under its retention policy, holding the messages of two
\* chats of one session.
RetentionScopes == {<<"s1", 42>>, <<"s1", 43>>}

\* The messages stored there: those of one id, of which the store keeps the
\* last.
RetentionMessages == {message \in InputMessages : message.id = 2}

NextRetention ==
    StoreFrom(RetentionScopes, RetentionMessages) \/ Sweep \/ AdvanceClock

SpecRetention == Init /\ [][NextRetention]_vars

\* The same, with the sweep run again and again.
SpecRetentionSwept == SpecRetention /\ WF_vars(Sweep)

\* The Message Store ingesting a message under every form of date.
NextDates == StoreDated \/ AdvanceClock

SpecDates == Init /\ [][NextDates]_vars

\* Every operation of the Message Store and of the Period Summarizer, called
\* for one scope.
NextEngine ==
    \/ StoreUnder(Callers) \/ FindSimilar \/ EnhancedContext \/ PeriodFetch
    \/ PeriodSummary \/ ChunkSearch \/ Clear \/ Sweep

SpecEngine == Init /\ [][NextEngine]_vars

\* The Context Assembler over the messages of its caller.
NextAssembler == StoreUnder(Callers) \/ BuildContext

SpecAssembler == Init /\ [][NextAssembler]_vars

(***************************************************************************)
(* back/agents: the Agent Pipeline. The Pipeline State is a function from  *)
(* its keys to their values; a text the stages take apart (the query, a    *)
(* completion) is the sequence of its words.                               *)
(***************************************************************************)
\* dict.get(key, default)
Get(d, key, default) == IF key \in DOMAIN d THEN d[key] ELSE default

\* d[key] = value
Put(d, key, value) ==
    [k \in DOMAIN d \cup {key} |-> IF k = key THEN value ELSE d[k]]

\* The fixed neutral profile of AnalystAgent.
DefaultProfile ==
    [type |-> "dict",
     communication_style |-> "neutral",
     interests |-> <<"general topics">>,
     personality_traits |-> <<"helpful", "friendly">>,
     background |-> "Unknown based on limited conversation history",
     relationship_context |-> "casual conversation"]

\* A profile parsed from the model's JSON.
LlmProfile ==
    [type |-> "dict",
     communication_style |-> "brief",
     interests |-> <<"software">>,
     personality_traits |-> <<"direct">>,
     background |-> "engineer",
     relationship_context |-> "colleague"]

NoHistoryProfile ==
    [type |-> "str", text |-> "No message history available to create a persona."]

\* What a stage's execute() gives _run_agent: the state as the stage left it,
\* whether an exception left execute(), and whether execute() caught one.
Returned(s) == [state |-> s, raises |-> FALSE, catches |-> FALSE, detail |-> ""]
Caught(s) == [state |-> s, raises |-> FALSE, catches |-> TRUE, detail |-> ""]
Raised(s, detail) == [state |-> s, raises |-> TRUE, catches |-> FALSE, detail |-> detail]

\* AnalystAgent.execute. reply is what chat.completions.create gave:
\* "none" (None, the provider failed), "json" (a JSON object) or "text"
\* (content that is no JSON).
AnalystReplies == {"none", "json", "text"}

AnalystExecute(s, reply) ==
    IF Get(s, "message_history", <<>>) = <<>>
    THEN Returned(Put(s, "persona_profile", NoHistoryProfile))
    ELSE IF \E i \in 1..Len(s.message_history) :
                "text" \notin DOMAIN s.message_history[i]
    THEN Raised(s, "'text'")
    ELSE IF reply = "json" THEN Returned(Put(s, "persona_profile", LlmProfile))
    ELSE Caught(Put(s, "persona_profile", DefaultProfile))

\* ContextAgent.execute. The dicts find_similar_messages_secure returns have
\* no 'payload' key.
ContextExecute(s, env) ==
    IF Get(s, "query", <<>>) = <<>>
    THEN Returned(Put(s, "context", "No query provided for context retrieval."))
    ELSE IF Get(s, "session_id", "") = "" \/ Get(s, "chat_id", 0) = 0
    THEN Returned(Put(s, "context",
                      "Missing session_id or chat_id for context retrieval."))
    ELSE IF FindSimilarMessagesSecure(s.session_id, s.chat_id, QueryText(s.query),
                DefaultLimit, DefaultThreshold, FALSE, {}, env) # <<>>
    THEN Caught(Put(s, "context", "Error retrieving context: 'payload'"))
    ELSE Returned(Put(s, "context",
                      "No similar messages found in the conversation history."))

\* RelevanceAgent.execute. reply is "none", "true" or "false" (a JSON object
\* with that is_relevant) or "text" (content that is no JSON).
RelevanceReplies == {"none", "true", "false", "text"}

NotRelevant(s, marker) ==
    Put(Put(s, "is_context_relevant", FALSE), "context", marker)

RelevanceExecute(s, reply) ==
    IF Get(s, "last_message", <<>>) = <<>> \/ Get(s, "context", "") = ""
    THEN Returned(Put(s, "is_context_relevant", FALSE))
    ELSE IF /\ Len(Get(s.last_message, "text", <<>>)) < 4
            /\ "?" \notin Range(Get(s.last_message, "text", <<>>))
    THEN Returned(NotRelevant(s, "No relevant context needed for a short greeting."))
    ELSE IF reply = "none"
    THEN Caught(NotRelevant(s,
             "Error evaluating context relevance: 'NoneType' object has no attribute 'choices'"))
    ELSE IF reply = "text"
    THEN Caught(NotRelevant(s,
             "Error parsing relevance evaluation. Treating context as not relevant."))
    ELSE IF reply = "true" THEN Returned(Put(s, "is_context_relevant", TRUE))
    ELSE Returned(NotRelevant(s,
             "Retrieved context was not relevant to the last message."))

\* str.lower() on the words of the model.
Lower(word) ==
    CASE word = "FINAL RESPONSE:" -> "final response:"
      [] word = "Final response:" -> "final response:"
      [] word = "Improved response:" -> "improved response:"
      [] word = "Here's the final response:" -> "here's the final response:"
      [] word = "Here's the improved response:" -> "here's the improved response:"
      [] word = "Revised message:" -> "revised message:"
      [] OTHER -> word

\* for prefix in prefixes_to_remove: if text.startswith(prefix): text =
\* text[len(prefix):].strip(), the prefixes compared in lower case if fold_case
RECURSIVE RemovePrefixes(_, _, _)
RemovePrefixes(text, prefixes, fold_case) ==
    IF prefixes = <<>> THEN text
    ELSE RemovePrefixes(
             IF /\ text # <<>>
                /\ IF fold_case THEN Lower(Head(text)) = Lower(Head(prefixes))
                   ELSE Head(text) = Head(prefixes)
             THEN Tail(text) ELSE text,
             Tail(prefixes), fold_case)

\* The removal of one pair of enclosing quotes.
RemoveQuotes(text) ==
    IF /\ text # <<>>
       /\ \/ Head(text) = "\"" /\ text[Len(text)] = "\""
          \/ Head(text) = "'" /\ text[Len(text)] = "'"
    THEN SubSeq(text, 2, Len(text) - 1)
    ELSE text

WriterPrefixes ==
    <<"Here's a draft response:", "Draft response:", "Response:", "Here is a response:">>

CriticPrefixes ==
    <<"Final response:", "Improved response:", "Here's the final response:",
      "Here's the improved response:", "Revised message:">>

NoCompletion == [ok |-> FALSE, content |-> <<>>]
Completion(content) == [ok |-> TRUE, content |-> content]

\* What chat.completions.create gives the Writer and the Critic: None, or a
\* response with this content.
WriterReplies ==
    {NoCompletion, Completion(<<>>), Completion(<<"On track">>),
     Completion(<<"Response:", "On track">>),
     Completion(<<"\"", "On track", "\"">>)}

CriticReplies ==
    {NoCompletion, Completion(<<"All on track">>),
     Completion(<<"FINAL RESPONSE:", "All on track">>),
     Completion(<<"'", "All on track", "'">>)}

Apology == "Sorry, I'm having trouble generating a response right now."

\* The clean-up of the Writer: the prefixes are tried once each, in the order
\* of the list, and then one pair of quotes is removed.
CleanDraft(content) ==
    RemoveQuotes(RemovePrefixes(content, WriterPrefixes, FALSE))

\* The clean-up of the Critic: the same, the prefixes compared in lower case.
CleanFinal(content) ==
    RemoveQuotes(RemovePrefixes(content, CriticPrefixes, TRUE))

\* WriterAgent.execute
WriterExecute(s, reply) ==
    IF ~reply.ok THEN Caught(Put(s, "draft_response", Apology))
    ELSE Returned(Put(s, "draft_response",
                      JoinStrings(CleanDraft(reply.content), " ")))

\* CriticAgent.execute
CriticExecute(s, reply) ==
    IF Get(s, "draft_response", "") = ""
    THEN Returned(Put(s, "final_response", "No draft available to review."))
    ELSE IF ~reply.ok THEN Caught(Put(s, "final_response", s.draft_response))
    ELSE Returned(Put(s, "final_response",
                      JoinStrings(CleanFinal(reply.content), " ")))

Workflow ==
    <<"AnalystAgent", "ContextAgent", "RelevanceAgent", "WriterAgent", "CriticAgent">>

\* A check that lets every state pass.
NeverHalts(s) == FALSE

\* if state.get('error'): return state
HasError(s) == Get(s, "error", "") # ""

\* An order of the stages that leaves the retrieval of the context out.
SkipsContext(agent_name) ==
    CASE agent_name = "AnalystAgent" -> "RelevanceAgent"
      [] agent_name = "ContextAgent" -> "RelevanceAgent"
      [] agent_name = "RelevanceAgent" -> "WriterAgent"
      [] agent_name = "WriterAgent" -> "CriticAgent"
      [] agent_name = "CriticAgent" -> "return"

\* ChiefAgent.execute: where the run goes when the stage `agent_name` is
\* done and the state has no error.
NextStage(agent_name) ==
    CASE agent_name = "AnalystAgent" -> "ContextAgent"
      [] agent_name = "ContextAgent" -> "RelevanceAgent"
      [] agent_name = "RelevanceAgent" -> "WriterAgent"
      [] agent_name = "WriterAgent" -> "CriticAgent"
      [] agent_name = "CriticAgent" -> "return"

\* ChiefAgent._run_agent on the outcome r of agent.execute(state)
StateAfter(agent_name, r) ==
    IF r.raises
    THEN Put(r.state, "error",
             "An error occurred in " \o agent_name \o ": " \o r.detail)
    ELSE r.state

\* _run_agent(agent, state) and the check that follows it in execute.
RunAgent(agent_name, r) ==
    /\ pc = agent_name
    /\ state' = StateAfter(agent_name, r)
    /\ ran' = Append(ran, agent_name)
    /\ raised' = IF r.raises THEN Append(raised, agent_name) ELSE raised
    /\ caught' = IF r.catches THEN Append(caught, agent_name) ELSE caught
    /\ pc' = IF HasError(StateAfter(agent_name, r)) THEN "return"
             ELSE NextStage(agent_name)
    /\ UNCHANGED <<initial_state, response>>
    /\ UNCHANGED auxVars

\* normalize_message_history
NormalizeMessageHistory(message_history) ==
    [i \in 1..Len(message_history) |->
        Put(message_history[i], "role",
            IF \/ Get(message_history[i], "is_outgoing", FALSE)
               \/ Get(message_history[i], "isOutgoing", FALSE)
               \/ Get(message_history[i], "sender", "") = "user"
            THEN "Vy" ELSE "Sobesednik")]

\* The requests to /generate-agent-response.
Histories ==
    {<<>>,
     <<[sender |-> "user", text |-> TextProject]>>,
     <<[sender |-> "contact", text |-> TextRag], [sender |-> "user"]>>}
AgentQueries == {<<>>, <<"Hi">>, QStatus}
RequestScopes == {<<"s1", 42>>, <<"s1", 0>>}

\* str(e) of the HTTPException that generate_agent_response raises inside its
\* try and raises again from its except branch.
HttpErrorText(status_code, detail) == ToString(status_code) \o ": " \o detail

\* generate_agent_response up to the first stage of ChiefAgent.execute:
\* state = initial_state.copy()
Request ==
    \E scope \in RequestScopes, query \in AgentQueries, history \in Histories :
        /\ pc \in {"idle", "done"}
        /\ ran' = <<>>
        /\ raised' = <<>>
        /\ caught' = <<>>
        /\ IF ~ai_client
           THEN /\ response' = [status |-> 500,
                                detail |-> HttpErrorText(500,
                                    "Gemini client not initialized")]
                /\ pc' = "done"
                /\ initial_state' = <<>>
                /\ state' = <<>>
           ELSE /\ response' = NoResult
                /\ pc' = Workflow[1]
                /\ initial_state' =
                       [session_id |-> scope[1], chat_id |-> scope[2],
                        query |-> query,
                        message_history |-> NormalizeMessageHistory(history),
                        last_message |-> [sender |-> "user", text |-> query]]
                /\ state' = initial_state'
        /\ UNCHANGED storeVars
        /\ UNCHANGED auxVars

\* ChiefAgent.execute(initial_state) up to its first stage, called with a
\* state that has a last_message or has none: state = initial_state.copy()
Execute ==
    \E scope \in RequestScopes, query \in AgentQueries, history \in Histories :
    \E has_last_message \in BOOLEAN :
        /\ pc \in {"idle", "return"}
        /\ ran' = <<>>
        /\ raised' = <<>>
        /\ caught' = <<>>
        /\ response' = NoResult
        /\ pc' = Workflow[1]
        /\ initial_state' =
               IF has_last_message
               THEN [session_id |-> scope[1], chat_id |-> scope[2],
                     query |-> query,
                     message_history |-> NormalizeMessageHistory(history),
                     last_message |-> [sender |-> "user", text |-> query]]
               ELSE [session_id |-> scope[1], chat_id |-> scope[2],
                     query |-> query,
                     message_history |-> NormalizeMessageHistory(history)]
        /\ state' = initial_state'
        /\ UNCHANGED storeVars
        /\ UNCHANGED auxVars

RunAnalyst ==
    \E reply \in AnalystReplies :
        /\ RunAgent("AnalystAgent", AnalystExecute(state, reply))
        /\ UNCHANGED storeVars

RunContext ==
    \E env \in Envs({"emb", "search"}, {None},
                    IdsOf({p \in messages :
                              ScopeFilter(p, Get(state, "session_id", ""),
                                          Get(state, "chat_id", 0))}),
                    {}, {}) :
        /\ RunAgent("ContextAgent", ContextExecute(state, env))
        /\ collections_initialized' =
               IF Get(state, "query", <<>>) = <<>> \/ Get(state, "chat_id", 0) = 0
               THEN collections_initialized
               ELSE InitializedAfterFind(QueryText(state.query), env)
        /\ ret' =
               IF Get(state, "query", <<>>) = <<>> \/ Get(state, "session_id", "") = ""
                  \/ Get(state, "chat_id", 0) = 0
               THEN NoResult
               ELSE [op |-> "find_similar_messages_secure",
                     session_id |-> state.session_id, chat_id |-> state.chat_id,
                     val |-> FindSimilarMessagesSecure(state.session_id,
                                 state.chat_id, QueryText(state.query),
                                 DefaultLimit, DefaultThreshold, FALSE, {}, env)]
        /\ UNCHANGED <<qdrant_client, ai_client, messages, summaries, now,
                       advances>>

RunRelevance ==
    \E reply \in RelevanceReplies :
        /\ RunAgent("RelevanceAgent", RelevanceExecute(state, reply))
        /\ UNCHANGED storeVars

RunWriter ==
    \E reply \in WriterReplies :
        /\ RunAgent("WriterAgent", WriterExecute(state, reply))
        /\ UNCHANGED storeVars

RunCritic ==
    \E reply \in CriticReplies :
        /\ RunAgent("CriticAgent", CriticExecute(state, reply))
        /\ UNCHANGED storeVars

\* generate_agent_response once ChiefAgent.execute has returned
Respond ==
    /\ pc = "return"
    /\ response' =
           IF "error" \in DOMAIN state
           THEN [status |-> 500, detail |-> HttpErrorText(500, state.error)]
           ELSE [status |-> 200, success |-> TRUE,
                 response |-> Get(state, "final_response", "No response generated.")]
    /\ pc' = "done"
    /\ UNCHANGED <<state, initial_state, ran, raised, caught>>
    /\ UNCHANGED storeVars
    /\ UNCHANGED auxVars

\* The engine as the pipeline finds it: empty, or holding a message of the
\* requesting scope.
InitPipeline ==
    /\ qdrant_client \in BOOLEAN
    /\ ai_client \in BOOLEAN
    /\ collections_initialized = FALSE
    /\ now = Now0
    /\ messages \in {{}, {MessagePoint("s1", 42,
                              [id |-> 2, text |-> TextProject,
                               date |-> IsoDate(Now0 - 1)])}}
    /\ summaries = {}
    /\ advances = 0
    /\ ret = NoResult
    /\ pc = "idle"
    /\ state = <<>>
    /\ initial_state = <<>>
    /\ ran = <<>>
    /\ raised = <<>>
    /\ caught = <<>>
    /\ response = NoResult
    /\ heap = <<>>
    /\ runs = <<>>
    /\ dialog_cache = <<>>
    /\ recent_suggestions = <<>>

NextPipeline ==
    \/ Request \/ RunAnalyst \/ RunContext \/ RunRelevance \/ RunWriter
    \/ RunCritic \/ Respond

SpecPipeline == InitPipeline /\ [][NextPipeline]_vars

(***************************************************************************)
(* The clean-up of the Writer and of the Critic on the outputs of the      *)
(* completion model. An output is a sequence of parts: filler prefixes,    *)
(* quote characters and body text.                                         *)
(***************************************************************************)
MaxParts == 3          \* parts of a model output

WriterParts == {"Response:", "Draft response:", "\"", "'", "On track"}
CriticParts == {"FINAL RESPONSE:", "Improved response:", "\"", "'", "All on track"}

Outputs(parts) == UNION {[1..n -> parts] : n \in 0..MaxParts}

\* The Writer's clean-up of response.choices[0].message.content
WriterCleans ==
    \E content \in Outputs(WriterParts) :
        /\ ret' = [op |-> "WriterAgent", content |-> content,
                   val |-> CleanDraft(content)]
        /\ UNCHANGED <<qdrant_client, ai_client, collections_initialized,
                       messages, summaries, now, advances>>
        /\ UNCHANGED agentVars

\* The Critic's clean-up of response.choices[0].message.content
CriticCleans ==
    \E content \in Outputs(CriticParts) :
        /\ ret' = [op |-> "CriticAgent", content |-> content,
                   val |-> CleanFinal(content)]
        /\ UNCHANGED <<qdrant_client, ai_client, collections_initialized,
                       messages, summaries, now, advances>>
        /\ UNCHANGED agentVars

NextCleanup == WriterCleans \/ CriticCleans

SpecCleanup == InitPipeline /\ [][NextCleanup]_vars

(***************************************************************************)
(* Concurrent requests. Every await of a run is a suspension point, so the *)
(* stages of two runs interleave. The dicts of the runs live in `heap`; a  *)
(* run holds the address of the mapping its caller built and the address   *)
(* of the mapping its stages write to. The values of a mapping (strings,   *)
(* the history list, the last_message dict) are never written in place.    *)
(***************************************************************************)
MaxRuns == 2           \* requests in flight at once

\* state = initial_state: the run writes to its caller's mapping.
Alias(h, addr) == [heap |-> h, addr |-> addr]

\* initial_state.copy(): a new dict with the items of the dict at addr
DictCopy(h, addr) == [heap |-> Append(h, h[addr]), addr |-> Len(h) + 1]

\* The requests made at once: a question with no history and a greeting
\* with one message of history, both of the scope that has stored messages.
RunInputs ==
    {[session_id |-> "s1", chat_id |-> 42, query |-> QStatus,
      message_history |-> NormalizeMessageHistory(<<>>),
      last_message |-> [sender |-> "user", text |-> QStatus]],
     [session_id |-> "s1", chat_id |-> 42, query |-> <<"Hi">>,
      message_history |->
          NormalizeMessageHistory(<<[sender |-> "user", text |-> TextProject]>>),
      last_message |-> [sender |-> "user", text |-> <<"Hi">>]]}

\* What the providers may answer the stage agent_name of a concurrent run.
Answers(agent_name) ==
    CASE agent_name = "AnalystAgent" -> {"json", "text"}
      [] agent_name = "ContextAgent" ->
             Envs({"search"}, {None}, IdsOf(messages), {}, {})
      [] agent_name = "RelevanceAgent" -> {"true", "false"}
      [] agent_name = "WriterAgent" ->
             {NoCompletion, Completion(<<"Response:", "On track">>)}
      [] agent_name = "CriticAgent" ->
             {NoCompletion, Completion(<<"FINAL RESPONSE:", "All on track">>)}
      [] OTHER -> {}

\* agent.execute(state) of the stage agent_name under that answer, and the
\* error _run_agent records.
StageResult(agent_name, s, answer) ==
    StateAfter(agent_name,
        CASE agent_name = "AnalystAgent" -> AnalystExecute(s, answer)
          [] agent_name = "ContextAgent" -> ContextExecute(s, answer)
          [] agent_name = "RelevanceAgent" -> RelevanceExecute(s, answer)
          [] agent_name = "WriterAgent" -> WriterExecute(s, answer)
          [] agent_name = "CriticAgent" -> CriticExecute(s, answer))

\* generate_agent_response builds initial_state and ChiefAgent.execute copies
\* it. `given` is the mapping as the caller built it; `expected` is the
\* state of a run of its own with the same answers; `overlapped` tells
\* whether a stage of another run ran while this run was under way.
Accept ==
    \E given \in RunInputs :
        LET copy == DictCopy(Append(heap, given), Len(heap) + 1)
        IN  /\ Len(runs) < MaxRuns
            /\ heap' = copy.heap
            /\ runs' = Append(runs,
                           [pc |-> Workflow[1],
                            initial_state |-> Len(heap) + 1,
                            state |-> copy.addr,
                            given |-> given, expected |-> given,
                            overlapped |-> FALSE])
            /\ UNCHANGED storeVars
            /\ UNCHANGED <<pc, state, initial_state, ran, raised, caught,
                           response, dialog_cache, recent_suggestions>>

\* One stage of one run, from the await that started it to the next.
Stage ==
    \E i \in DOMAIN runs :
    \E answer \in Answers(runs[i].pc) :
        LET agent_name == runs[i].pc
            after == StageResult(agent_name, heap[runs[i].state], answer)
        IN  /\ agent_name # "return"
            /\ heap' = [heap EXCEPT ![runs[i].state] = after]
            /\ runs' =
                   [j \in DOMAIN runs |->
                       IF j = i
                       THEN [runs[i] EXCEPT
                                !.pc = IF HasError(after) THEN "return"
                                       ELSE NextStage(agent_name),
                                !.expected = StageResult(agent_name,
                                                 runs[i].expected, answer)]
                       ELSE [runs[j] EXCEPT
                                !.overlapped = @ \/ runs[j].pc # "return"]]
            /\ collections_initialized' =
                   IF agent_name = "ContextAgent"
                   THEN InitializedAfterFind(
                            QueryText(heap[runs[i].state].query), answer)
                   ELSE collections_initialized
            /\ UNCHANGED <<qdrant_client, ai_client, messages, summaries, now,
                           advances, ret>>
            /\ UNCHANGED <<pc, state, initial_state, ran, raised, caught,
                           response, dialog_cache, recent_suggestions>>

\* The engine with both clients, as the requests find it.
InitRuns == InitPipeline /\ qdrant_client /\ ai_client

NextRuns == Accept \/ Stage

SpecRuns == InitRuns /\ [][NextRuns]_vars

\* The workflow of ChiefAgent, run on the states handed to execute.
NextChief ==
    \/ Execute \/ RunAnalyst \/ RunContext \/ RunRelevance \/ RunWriter
    \/ RunCritic

SpecChief == InitPipeline /\ [][NextChief]_vars

(***************************************************************************)
(* api/chats.py and ai/message_analyzer.py: the in-process caches. In the  *)
(* behaviours of SpecCaches `now` is time.time(), in seconds.              *)
(***************************************************************************)
CACHE_TTL == 30              \* CACHE_TTL = 30
DialogCacheLimit == 100      \* if len(dialog_cache) > 100
MaxDialogs == 50             \* actual_limit = min(limit, 50)
SuggestionCacheLimit == 50   \* if len(self.recent_suggestions) > 50
SuggestionsDropped == 10     \* sorted(...)[:10]
SuggestionCooldown == 300    \* if suggestion_age < 300
MaxFetches == 104            \* dialog lists fetched in one behaviour
MaxSuggestions == 54         \* suggestions generated in one behaviour

\* str(b) of a bool
PyBool(b) == IF b THEN "True" ELSE "False"

\* f"{session_id}_{limit}_{include_archived}_{include_readonly}_{include_groups}"
DialogKey(session_id, limit, include_archived, include_readonly, include_groups) ==
    session_id \o "_" \o ToString(limit) \o "_" \o PyBool(include_archived) \o "_" \o PyBool(include_readonly) \o "_" \o PyBool(include_groups)

\* _get_suggestion_cache_key: f"{session_id}:{chat_id}:{context_hash}", where
\* context is the hash of the last two messages of the conversation
SuggestionKey(session_id, chat_id, context) ==
    session_id \o ":" \o ToString(chat_id) \o ":" \o ToString(context)

\* cache[key] = entry
Assign(cache, key, entry) ==
    [k \in DOMAIN cache \cup {key} |-> IF k = key THEN entry ELSE cache[k]]

\* del cache[k] for the k of keys
Delete(cache, keys) == [k \in DOMAIN cache \ keys |-> cache[k]]

\* min(dialog_cache.keys(), key=lambda k: dialog_cache[k][1])
OldestKey(cache) ==
    CHOOSE k \in DOMAIN cache :
        \A j \in DOMAIN cache : cache[k].cache_time <= cache[j].cache_time

\* A cache that is never cleaned up.
KeepAll(cache) == cache

\* get_dialogs: "Cleanup old cache entries (keep only last 100)"
DialogCleanup(cache) ==
    IF Cardinality(DOMAIN cache) > DialogCacheLimit
    THEN Delete(cache, {OldestKey(cache)})
    ELSE cache

\* sorted(recent_suggestions.keys(), key=...['timestamp'])[:10]: the
\* timestamps are isoformat() strings of one form, which compare as their
\* instants do.
OldestKeys(cache) ==
    Take(SortedBy(SeqOfSet(DOMAIN cache),
                  [k \in DOMAIN cache |-> cache[k].timestamp.ts]),
         SuggestionsDropped)

\* suggest_response: "Clean up old cache entries (keep only last 50)"
SuggestionCleanup(cache) ==
    IF Cardinality(DOMAIN cache) > SuggestionCacheLimit
    THEN Delete(cache, Range(OldestKeys(cache)))
    ELSE cache

\* GET /dialogs?session_id=s1&limit=...: the client asks for a list it has
\* not asked for before, for a cached list that is still young or, once the
\* cache is full, for the oldest cached list. Fetching a list takes a second.
GetDialogs ==
    \E limit \in 1..MaxFetches, success \in BOOLEAN :
        LET cache_key == DialogKey("s1", limit, FALSE, FALSE, TRUE)
            fetched == now - Now0
            cached == cache_key \in DOMAIN dialog_cache
            young == cached /\ now - dialog_cache[cache_key].cache_time < CACHE_TTL
            dialogs == [session_id |-> "s1", count |-> Min(limit, MaxDialogs)]
        IN  /\ recent_suggestions = <<>>
            /\ \/ limit = fetched + 1
               \/ young
               \/ /\ Cardinality(DOMAIN dialog_cache) = DialogCacheLimit
                  /\ cached
                  /\ cache_key = OldestKey(dialog_cache)
            /\ IF young
               THEN /\ ret' = [op |-> "get_dialogs", cache_key |-> cache_key,
                               success |-> TRUE, cached |-> TRUE,
                               dialogs |-> dialog_cache[cache_key].cached_data,
                               cache_time |-> dialog_cache[cache_key].cache_time,
                               served_at |-> now]
                    /\ UNCHANGED <<now, dialog_cache>>
               ELSE IF success
               THEN /\ fetched < MaxFetches
                    /\ dialog_cache' =
                           DialogCleanup(Assign(dialog_cache, cache_key,
                                                [cached_data |-> dialogs,
                                                 cache_time |-> now + 1]))
                    /\ now' = now + 1
                    /\ ret' = [op |-> "get_dialogs", cache_key |-> cache_key,
                               success |-> TRUE, cached |-> FALSE,
                               dialogs |-> dialogs,
                               cache_time |-> now + 1, served_at |-> now + 1]
               ELSE /\ ret' = [op |-> "get_dialogs", cache_key |-> cache_key,
                               success |-> FALSE, cached |-> FALSE]
                    /\ UNCHANGED <<now, dialog_cache>>
            /\ UNCHANGED <<qdrant_client, ai_client, collections_initialized,
                           messages, summaries, advances, recent_suggestions>>
            /\ UNCHANGED <<pc, state, initial_state, ran, raised, caught,
                           response, heap, runs>>

\* suggest_response(session_id, chat_id, user_id, force_suggestion=...), for a
\* conversation in a state not met before or, once the cache is full, in the
\* state of the oldest cached suggestion. Generating takes a second.
SuggestResponse ==
    \E context \in 1..MaxSuggestions, force_suggestion \in BOOLEAN :
    \E suggestion \in {None, "Sounds good"} :
        LET cache_key == SuggestionKey("s1", 42, context)
            made == now - Now0
            cached == cache_key \in DOMAIN recent_suggestions
            recent == /\ cached /\ ~force_suggestion
                      /\ now - recent_suggestions[cache_key].timestamp.ts
                             < SuggestionCooldown
        IN  /\ dialog_cache = <<>>
            /\ \/ context = made + 1
               \/ /\ Cardinality(DOMAIN recent_suggestions) = SuggestionCacheLimit
                  /\ cached
                  /\ cache_key = OldestKeys(recent_suggestions)[1]
            /\ IF recent \/ suggestion = None
               THEN /\ ret' = [op |-> "suggest_response", cache_key |-> cache_key,
                               val |-> None]
                    /\ UNCHANGED <<now, recent_suggestions>>
               ELSE /\ made < MaxSuggestions
                    /\ recent_suggestions' =
                           SuggestionCleanup(
                               Assign(recent_suggestions, cache_key,
                                      [suggestion |-> suggestion,
                                       timestamp |-> IsoDate(now + 1)]))
                    /\ now' = now + 1
                    /\ ret' = [op |-> "suggest_response", cache_key |-> cache_key,
                               val |-> suggestion]
            /\ UNCHANGED <<qdrant_client, ai_client, collections_initialized,
                           messages, summaries, advances, dialog_cache>>
            /\ UNCHANGED <<pc, state, initial_state, ran, raised, caught,
                           response, heap, runs>>

InitCaches == Init /\ qdrant_client /\ ai_client

NextCaches == GetDialogs \/ SuggestResponse

\* The two caches, each followed from its empty state.
SpecCaches == InitCaches /\ [][NextCaches]_vars

(***************************************************************************)
(* services/ai_service.py: AIService, the token budget of a prompt. A text *)
(* is the sequence of the tokens cl100k_base splits it into.               *)
(***************************************************************************)
MaxContext == 3              \* messages of a context
MaxTokens == 8               \* the largest max_tokens asked for

\* The texts tokenizer.encode refuses (disallowed_special).
SpecialTokens == {"<|endoftext|>"}

\* len(text), in characters
RECURSIVE Chars(_)
Chars(text) == IF text = <<>> THEN 0 ELSE Len(Head(text)) + Chars(Tail(text))

\* _count_tokens: len(self.tokenizer.encode(text)), and len(text) // 4 when
\* encode raises
CountTokens(text) ==
    IF Range(text) \cap SpecialTokens = {} THEN Len(text) ELSE Chars(text) \div 4

\* f"{msg.get('sender', '')}: {msg.get('text', '')}"
MsgText(msg) == <<msg.sender, ":">> \o msg.text

\* A loop that passes over a message that does not fit and goes on.
RECURSIVE SkipLoop(_, _, _, _)
SkipLoop(context_messages, n, total_tokens, max_tokens) ==
    IF n = 0 THEN <<>>
    ELSE LET msg_tokens == CountTokens(MsgText(context_messages[n]))
         IN  IF total_tokens + msg_tokens > max_tokens
             THEN SkipLoop(context_messages, n - 1, total_tokens, max_tokens)
             ELSE Append(SkipLoop(context_messages, n - 1, total_tokens + msg_tokens, max_tokens), context_messages[n])

SkipTooLong(context_messages, max_tokens) == SkipLoop(context_messages, Len(context_messages), 0, max_tokens)

\* _truncate_context, the loop over reversed(messages) when it reaches
\* context_messages[n] with total_tokens counted: the list `truncated` it ends with.
RECURSIVE TruncateLoop(_, _, _, _)
TruncateLoop(context_messages, n, total_tokens, max_tokens) ==
    IF n = 0 THEN <<>>
    ELSE LET msg_tokens == CountTokens(MsgText(context_messages[n]))
         IN  IF total_tokens + msg_tokens > max_tokens
             THEN <<>>
             ELSE Append(TruncateLoop(context_messages, n - 1, total_tokens + msg_tokens, max_tokens), context_messages[n])

TruncateContext(context_messages, max_tokens) == TruncateLoop(context_messages, Len(context_messages), 0, max_tokens)

\* The messages of a context: of three, four and (counted by the fallback)
\* four tokens.
ContextMessages ==
    {[sender |-> "user", text |-> <<" Hi">>],
     [sender |-> "ai",   text |-> <<" On", " track">>],
     [sender |-> "user", text |-> <<" ", "<|endoftext|>">>]}

\* _truncate_context(messages, max_tokens)
Truncate ==
    \E n \in 0..MaxContext, max_tokens \in 0..MaxTokens :
    \E context \in [1..n -> ContextMessages] :
        /\ ret' = [op |-> "_truncate_context", messages |-> context,
                   max_tokens |-> max_tokens,
                   val |-> TruncateContext(context, max_tokens)]
        /\ UNCHANGED <<qdrant_client, ai_client, collections_initialized,
                       messages, summaries, now, advances>>
        /\ UNCHANGED agentVars

SpecTruncate == InitCaches /\ [][Truncate]_vars

(***************************************************************************)
(* The properties of the Message Store and of the Context Assembler.       *)
(***************************************************************************)
\* C1: find_similar called for scope A, when A and another scope both hold
\* messages, returns only points whose payload scope is A, whatever the
\* optional arguments are. (Refuted: with include_other_chats the chat
\* filter is left out.)
C1_FindSimilarStaysInScope ==
    (/\ ret.op = "find_similar_messages_secure"
     /\ \E p \in messages : ScopeFilter(p, ret.session_id, ret.chat_id)
     /\ \E p \in messages : ~ScopeFilter(p, ret.session_id, ret.chat_id))
    => \A i \in 1..Len(ret.val) :
           /\ ret.val[i].metadata.session_id = ret.session_id
           /\ ret.val[i].metadata.chat_id = ret.chat_id

\* C2: however often a message is stored, the store holds at most one point
\* for a scope and message id, and exactly one after a store that succeeded:
\* the second store replaces the point of the first.
C2_StoreIsUpsert ==
    /\ \A scope \in Scopes, id \in MsgIds :
           Cardinality({p \in messages : /\ ScopeFilter(p, scope[1], scope[2])
                                         /\ p.message_id = id}) <= 1
    /\ (ret.op = "store_message_securely" /\ ret.val)
       => Cardinality({p \in messages :
                          /\ ScopeFilter(p, ret.session_id, ret.chat_id)
                          /\ p.message_id = ret.message_id}) = 1

\* A message that the store already held was stored again, at a later
\* instant, and the store succeeded.
C2_StoredTwice ==
    /\ ret.op = "store_message_securely"
    /\ ret.val
    /\ ret.existed
    /\ now > Now0

\* C7: after the sweep returns, every point whose retention expiry was in
\* the past is gone, every other point is still there, and the count
\* returned is the number of points removed. A point's retention expiry is
\* the instant it was stored plus RetentionDays, as the data model of the
\* specification defines it. (Refuted: store_message_securely writes no
\* retention_expires into the payload, so the sweep's filter matches no
\* point.)
C7_SweepRemovesExpired ==
    ret.op = "cleanup_expired_messages"
    => /\ \A p \in ret.before :
              (p.stored_at + RetentionDays * TicksPerDay < now) <=> (p \notin messages)
       /\ ret.val = Cardinality(ret.before \ messages)

\* The stored points whose retention period, RetentionDays from the instant
\* they were stored, has elapsed.
ExpiredPoints ==
    {p \in messages : p.stored_at + RetentionDays * TicksPerDay < now}

\* C14: a stored point carries its retention expiry, so that whenever the
\* retention period of stored points has elapsed, the sweep, run again and
\* again, eventually leaves none of them in the store. (Refuted: the payload
\* has no retention_expires, and the expired points stay however often the
\* sweep runs.)
C14_ExpiredEventuallySwept ==
    (ExpiredPoints # {}) ~> (ExpiredPoints = {})

\* C8: after clear(scope) returned true, neither a message point nor a
\* summary chunk of that scope is left in the store. (Refuted: the summaries
\* collection is not cleared.)
C8_ClearRemovesAllPoints ==
    (ret.op = "clear_chat_data_secure" /\ ret.val)
    => /\ \A p \in messages : ~ScopeFilter(p, ret.session_id, ret.chat_id)
       /\ \A c \in summaries : ~ScopeFilter(c, ret.session_id, ret.chat_id)

\* The stored summary chunks of a scope whose date range covers `dates`.
Covering(session_id, chat_id, dates) ==
    {c \in summaries : /\ ScopeFilter(c, session_id, chat_id)
                       /\ Range(dates) \subseteq Range(c.period_dates)}

\* C15: a call of summarize_period whose provider calls all succeed, made
\* when a chunk covering the dates exists for the scope, returns the summary
\* of such a chunk verbatim and leaves the chunks as they were; and when no
\* covering chunk exists, it returns no summary of a stored chunk of another
\* period. (Refuted: the lookup is a similarity search for the dates' text,
\* which may miss the covering chunk and may return any chunk of the scope.)
C15_ReusesCoveringSummary ==
    [][(ret'.op = "get_period_summary" /\ ret'.faults = {})
       => LET covering == Covering(ret'.session_id, ret'.chat_id, ret'.dates)
          IN  /\ covering # {}
                    => /\ summaries' = summaries
                       /\ \E c \in covering : ret'.val = c.summary
              /\ covering = {}
                    => \A c \in summaries : ret'.val # c.summary]_vars

\* C16: no operation whose provider calls all succeed changes the summary
\* text of a stored chunk: a chunk that is still stored after the operation
\* has the text it had before. (Refuted: a period summarized again is stored
\* under the id of its chunk, and the new text replaces the old.)
C16_ChunkImmutable ==
    [][("faults" \in DOMAIN ret' => ret'.faults = {})
       => \A c \in summaries : \A d \in summaries' :
              d.id = c.id => d.summary = c.summary]_vars

\* The calendar days of `dates` on which the scope has stored messages.
DaysWithMessages(session_id, chat_id, dates) ==
    {p.day_bucket : p \in {q \in messages : /\ ScopeFilter(q, session_id, chat_id)
                                            /\ q.day_bucket \in Range(dates)}}

\* The digests of `days` in the order `order`, each under the label of its
\* day, joined as get_period_summary joins them.
LabelledDigests(order, digest) ==
    JoinStrings([i \in DOMAIN order |->
                    "[" \o ToString(order[i]) \o "]: " \o digest], "\n---\n")

\* C17: a call of summarize_period whose provider calls all succeed, made
\* when the scope has no summary chunk and has messages in the period,
\* returns and stores one digest for each day of the period that has
\* messages, each labelled with that day. (Refuted: the messages fetched for
\* the period carry no day, so that all of them fall into one group labelled
\* "unknown".)
C17_OneDigestPerDay ==
    [][(/\ ret'.op = "get_period_summary"
        /\ ret'.faults = {}
        /\ ret'.val # None
        /\ \A c \in summaries : ~ScopeFilter(c, ret'.session_id, ret'.chat_id))
       => LET days == DaysWithMessages(ret'.session_id, ret'.chat_id, ret'.dates)
          IN  \E order \in [1..Cardinality(days) -> days] :
              \E digest \in Digests :
                  /\ Range(order) = days
                  /\ ret'.val = LabelledDigests(order, digest)
                  /\ \E c \in summaries' : c.summary = ret'.val]_vars

\* C18: once a chat has received twice the rolling window of messages, with
\* both providers available, a summary chunk is stored for its scope.
\* (Refuted: store_message_securely counts no messages and generates no
\* summary.)
C18_RollingSummaryStored ==
    \A scope \in Callers :
        (/\ qdrant_client /\ ai_client
         /\ Cardinality({p \in messages : ScopeFilter(p, scope[1], scope[2])})
                >= MaxIngested)
        => \E c \in summaries : ScopeFilter(c, scope[1], scope[2])

\* C24: when no provider call fails, the recent messages returned are at
\* most context_limit, are messages of the scope, are in descending order of
\* their timestamps, and no stored message of the scope that was left out is
\* newer than one that was returned. (Refuted: the scroll takes the first
\* context_limit points in the order of their ids, and only these are
\* sorted.)
C24_RecentAreMostRecent ==
    (/\ ret.op = "get_enhanced_context_secure"
     /\ ret.faults = {}
     /\ "recent_messages" \in DOMAIN ret.val)
    => LET recent == ret.val.recent_messages
           scope == {p \in messages : ScopeFilter(p, ret.session_id, ret.chat_id)}
           returned == {recent[i].id : i \in DOMAIN recent}
       IN  /\ Len(recent) <= ret.context_limit
           /\ returned \subseteq {p.message_id : p \in scope}
           /\ \A i, j \in DOMAIN recent :
                  i < j => recent[i].date >= recent[j].date
           /\ \A p \in scope : \A i \in DOMAIN recent :
                  p.message_id \notin returned => p.date <= recent[i].date

\* C9: when the recent messages, the similar messages, the summary chunks
\* and the period data are all empty, the prompt is the question alone.
\* (Refuted: the three section labels, and the period lines, are kept with
\* nothing below them.)
C9_EmptySourcesQuestionOnly ==
    (/\ ret.op = "build_context_for_ai"
     /\ ret.val.sections.recent = 0
     /\ ret.val.sections.similar = 0
     /\ ret.val.sections.chunks = 0
     /\ ret.val.sections.period_messages = 0
     /\ ~ret.val.sections.has_period_summary)
    => ret.val.prompt = <<Section("question", "VOPROS", <<QueryText(ret.query)>>)>>

\* The lines of the recent-messages block of a prompt.
RecentLinesOf(prompt) ==
    IF \E k \in DOMAIN prompt : /\ prompt[k].kind = "body"
                                /\ prompt[k].label = "POSLEDNIE SOOBSHCHENIYA"
    THEN prompt[CHOOSE k \in DOMAIN prompt :
                    /\ prompt[k].kind = "body"
                    /\ prompt[k].label = "POSLEDNIE SOOBSHCHENIYA"].body
    ELSE <<>>

\* C19: when the query names a period, the vector store is unavailable, so
\* that the period fetch fails, and the caller provided recent messages, the
\* recent-messages block of the prompt holds the last recent_limit of the
\* provided messages, as it does when no period is named. (Refuted: the
\* failed fetch returns an empty list instead of raising, the fallback is
\* not entered and the block is empty.)
C19_PeriodFailureFallsBack ==
    (/\ ret.op = "build_context_for_ai"
     /\ DetectTimeRange(ret.query).dates # <<>>
     /\ ~qdrant_client
     /\ ret.provided_recent # <<>>)
    => RecentLinesOf(ret.val.prompt)
           = RecentBlockLines(LastN(ret.provided_recent, ret.recent_limit))

\* C10: once messages 2 and 3 of the conversation are stored under the
\* scope and the prompt built for "what's the project status" lists two
\* recent messages, their lines are in ascending order of time and the
\* prompt ends with the question. (Refuted: the lines come in the order of
\* the point ids.)
C10_RecentBlockChronological ==
    (/\ ret.op = "build_context_for_ai"
     /\ ret.query = QStatus
     /\ {p.text : p \in {q \in messages :
                            ScopeFilter(q, ret.session_id, ret.chat_id)}}
            = {TextProject, TextRag}
     /\ ret.val.sections.recent = 2)
    => /\ \A k \in 1..Len(ret.val.prompt) :
              (ret.val.prompt[k].kind = "body"
               /\ ret.val.prompt[k].label = "POSLEDNIE SOOBSHCHENIYA")
              => \A i, j \in 1..Len(ret.val.prompt[k].body) :
                     i < j => ret.val.prompt[k].body[i].ts
                                  <= ret.val.prompt[k].body[j].ts
       /\ ret.val.prompt[Len(ret.val.prompt)].kind = "question"

\* The point the last store_message_securely wrote, if it wrote one.
StoredPoints ==
    {p \in messages : p.id = PointId(ret.session_id, ret.chat_id, ret.message_id)}

\* The formats of date that are handled: ISO with "T", with or without an
\* offset, ISO naive with either separator, and relative minutes.
HandledDate(date) ==
    \/ date.fmt = "rel"
    \/ date.fmt = "iso" /\ (date.sep = "T" \/ date.offset = "none")

\* The instant a handled date denotes, the call being made at `at`.
InstantOf(date, at) ==
    IF date.fmt = "rel" THEN at - date.minutes ELSE date.ts

C13_StoreRejects ==
    (/\ ret.op = "store_message_securely"
     /\ ret.text \in {"", "Hi", " ok "} \/ ~ret.embedded)
    => ret.val = FALSE /\ ret.unchanged

\* With both clients there and points in the store, the embedding of a long
\* enough text failed.
C13_EmbeddingFailed ==
    /\ ret.op = "store_message_securely"
    /\ qdrant_client /\ ai_client
    /\ ret.text = TextRag
    /\ ~ret.embedded
    /\ messages # {}

RelevanceMarkers ==
    {"No relevant context needed for a short greeting.",
     "Retrieved context was not relevant to the last message.",
     "Error parsing relevance evaluation. Treating context as not relevant.",
     "Error evaluating context relevance: 'NoneType' object has no attribute 'choices'"}

\* C20: when the Relevance stage has ended with is_context_relevant false,
\* the context the Writer is about to read is one of the stage's marker
\* strings. (Refuted: with no last_message in the state the stage sets the
\* flag and leaves the context as the Context stage wrote it.)
C20_IrrelevantContextMarked ==
    (pc = "WriterAgent" /\ Get(state, "is_context_relevant", TRUE) = FALSE)
    => Get(state, "context", "") \in RelevanceMarkers

\* The strings ContextAgent writes into context when it has retrieved
\* nothing.
ContextPlaceholders ==
    {"No query provided for context retrieval.",
     "Missing session_id or chat_id for context retrieval.",
     "No similar messages found in the conversation history.",
     "Could not retrieve full text for similar messages.",
     "Error retrieving context: 'payload'"}

\* C21: when the Context stage has ended and its similarity search returned
\* at least one message of the scope, the state has the previews in
\* similar_messages and its context is none of the stage's error or
\* placeholder strings. (Refuted: the stage reads msg['payload'] of dicts that
\* have no such key, and the KeyError becomes the context.)
C21_RetrievedContextUsed ==
    (/\ ran # <<>>
     /\ ran[Len(ran)] = "ContextAgent"
     /\ ret.op = "find_similar_messages_secure"
     /\ ret.val # <<>>)
    => /\ "similar_messages" \in DOMAIN state
       /\ Get(state, "context", "") \notin ContextPlaceholders

\* C22: at every point of every interleaving of the runs, the mapping a
\* run's caller built is as the caller built it, and the Pipeline State of
\* the run is the state that a run of its own from the same initial state
\* with the same provider answers would have.
C22_RunsIsolated ==
    \A i \in DOMAIN runs :
        /\ heap[runs[i].initial_state] = runs[i].given
        /\ heap[runs[i].state] = runs[i].expected

\* Two runs that interleaved have both returned a final response.
C22_TwoRunsInterleaved ==
    /\ Len(runs) = MaxRuns
    /\ \A i \in DOMAIN runs :
           /\ runs[i].pc = "return"
           /\ runs[i].overlapped
           /\ "final_response" \in DOMAIN heap[runs[i].state]
    /\ heap[runs[1].state] # heap[runs[2].state]

\* C23: the text the Writer stores begins with none of the Writer's filler
\* prefixes, is not wrapped in a pair of equal quote characters, and is left
\* as it is by a second clean-up; and so for the Critic, its prefixes
\* compared in lower case. (Refuted: each prefix is tried once, in the order
\* of the list, and one pair of quotes is removed, last.)
C23_CleanupComplete ==
    /\ ret.op = "WriterAgent"
           => /\ ret.val # <<>> => Head(ret.val) \notin Range(WriterPrefixes)
              /\ RemoveQuotes(ret.val) = ret.val
              /\ CleanDraft(ret.val) = ret.val
    /\ ret.op = "CriticAgent"
           => /\ ret.val # <<>>
                    => Lower(Head(ret.val))
                           \notin {Lower(CriticPrefixes[k]) : k \in DOMAIN CriticPrefixes}
              /\ RemoveQuotes(ret.val) = ret.val
              /\ CleanFinal(ret.val) = ret.val

\* C3: once a stage has raised in a run, it is the last stage that run
\* executes, the state's error field is not empty, the run does not go on to
\* another stage, and its caller gets the failure.
C3_RaiseHaltsRun ==
    raised # <<>>
    => /\ Len(raised) = 1
       /\ ran[Len(ran)] = raised[1]
       /\ Get(state, "error", "") # ""
       /\ pc \in {"return", "done"}
       /\ pc = "done" => response.status = 500

\* A run in which the Analyst raised has been answered.
C3_AnalystRaised ==
    /\ pc = "done"
    /\ raised = <<"AnalystAgent">>
    /\ ran = <<"AnalystAgent">>

\* C4: the stages a run has executed are the first stages of the workflow
\* Analyst, ContextRetrieval, Relevance, Writer, Critic, in that order and
\* each once; the stage about to start is the one after them; and a run
\* that ended before the Critic ended with an error.
C4_StagesInOrder ==
    /\ Len(ran) <= Len(Workflow)
    /\ \A i \in 1..Len(ran) : ran[i] = Workflow[i]
    /\ pc \in Range(Workflow) => pc = Workflow[Len(ran) + 1]
    /\ (pc \in {"return", "done"} /\ ran # <<>> /\ Len(ran) < Len(Workflow))
       => Get(state, "error", "") # ""

\* A run has executed all five stages and has been answered.
C4_AllStagesRan ==
    /\ pc = "done"
    /\ ran = Workflow
    /\ response.status = 200

\* C5: once the Writer or the Critic has caught an exception, the state's
\* error field is not empty, no further stage executes and the caller gets
\* a failure. (Refuted: the stage stores a fallback text and the run goes on
\* to a success.)
C5_CaughtExceptionFailsRun ==
    (\E i \in 1..Len(caught) : caught[i] \in {"WriterAgent", "CriticAgent"})
    => /\ Get(state, "error", "") # ""
       /\ ran[Len(ran)] \in Range(caught)
       /\ pc = "done" => response.status = 500

\* C6: when the Analyst stage has ended, whatever the message history and
\* the completion were, the error field is empty and the persona profile is
\* a profile: the one the model gave or the neutral default. (Refuted: an
\* entry without text raises, an empty history gives a sentence.)
C6_AnalystEndsWithProfile ==
    ran = <<"AnalystAgent">>
    => /\ Get(state, "error", "") = ""
       /\ "persona_profile" \in DOMAIN state
       /\ \/ state.persona_profile = DefaultProfile
          \/ state.persona_profile = LlmProfile
\* C25: for the same store content, scope, dates and limit, the client-side
\* fallback of get_messages_for_period (taken when the scroll with the
\* day_bucket filter raises) returns the same set of messages as the native
\* path: the points of the scope whose day bucket is one of the dates.
NoFaults == [faults |-> {}]

C25_FallbackSameAsNative ==
    (/\ ret.op = "get_messages_for_period"
     /\ qdrant_client
     /\ ret.faults = {"native"})
    => Range(ret.val)
         = Range(GetMessagesForPeriod(ret.session_id, ret.chat_id, ret.dates,
                                      ret.limit, NoFaults))

\* C26: store_message_securely(A, m) and clear_chat_data_secure(A) leave the
\* points of every other scope B as they are: the point ids of distinct
\* (session_id, chat_id, message_id) never coincide, an upsert under A
\* replaces no point of B and clear(A) deletes no point of B.
OutsideScope(points, session_id, chat_id) ==
    {p \in points : ~ScopeFilter(p, session_id, chat_id)}

DistinctIds ==
    \A a, b \in Scopes \X MsgIds :
        PointId(a[1][1], a[1][2], a[2]) = PointId(b[1][1], b[1][2], b[2])
            => a = b

C26_OtherScopesUntouched ==
    [][/\ DistinctIds
       /\ ret'.op \in {"store_message_securely", "clear_chat_data_secure"}
            => OutsideScope(messages', ret'.session_id, ret'.chat_id)
                 = OutsideScope(messages, ret'.session_id, ret'.chat_id)]_vars

\* A message was stored under one scope over the same message of another
\* scope, or a scope that held points was cleared beside another that did.
C26_ScopesSideBySide ==
    /\ OutsideScope(messages, ret.session_id, ret.chat_id) # {}
    /\ \/ /\ ret.op = "store_message_securely" /\ ret.val
          /\ \E p \in OutsideScope(messages, ret.session_id, ret.chat_id) :
                 p.message_id = ret.message_id
       \/ ret.op = "clear_chat_data_secure" /\ ret.val /\ ret.had_points

\* C27: after any sequence of requests the dialog-list cache holds at most
\* 100 entries and the recent-suggestion cache at most 50, the entries a
\* request evicts are no younger than any entry it keeps, and a dialog list
\* is served from the cache only while it is younger than the 30 seconds of
\* CACHE_TTL.
Evicted(before, after) == DOMAIN before \ DOMAIN after

C27_CachesBounded ==
    [][/\ Cardinality(DOMAIN dialog_cache') <= DialogCacheLimit
       /\ Cardinality(DOMAIN recent_suggestions') <= SuggestionCacheLimit
       /\ \A k \in Evicted(dialog_cache, dialog_cache') :
              \A j \in DOMAIN dialog_cache' :
                  dialog_cache[k].cache_time <= dialog_cache'[j].cache_time
       /\ \A k \in Evicted(recent_suggestions, recent_suggestions') :
              \A j \in DOMAIN recent_suggestions' :
                  recent_suggestions[k].timestamp.ts
                      <= recent_suggestions'[j].timestamp.ts
       /\ (ret'.op = "get_dialogs" /\ ret'.cached)
              => ret'.served_at - ret'.cache_time < CACHE_TTL]_vars

\* A full dialog cache that has evicted its first lists serves a cached list.
C27_DialogCacheTurnedOver ==
    /\ Cardinality(DOMAIN dialog_cache) = DialogCacheLimit
    /\ DialogKey("s1", 2, FALSE, FALSE, TRUE) \notin DOMAIN dialog_cache
    /\ DialogKey("s1", 1, FALSE, FALSE, TRUE) \in DOMAIN dialog_cache
    /\ ret.op = "get_dialogs" /\ ret.cached

\* C28: _truncate_context(messages, max_tokens) returns a contiguous suffix
\* of messages, in their order, whose tokens together do not exceed
\* max_tokens, and the suffix is maximal: it is the whole list, or the next
\* older message would bring the total above max_tokens.
RECURSIVE TotalTokens(_)
TotalTokens(msgs) ==
    IF msgs = <<>> THEN 0
    ELSE CountTokens(MsgText(Head(msgs))) + TotalTokens(Tail(msgs))

C28_MaximalSuffix ==
    ret.op = "_truncate_context" =>
        LET left == Len(ret.messages) - Len(ret.val)
        IN  /\ left >= 0
            /\ ret.val = SubSeq(ret.messages, left + 1, Len(ret.messages))
            /\ TotalTokens(ret.val) <= ret.max_tokens
            /\ \/ left = 0
               \/ TotalTokens(ret.val) + CountTokens(MsgText(ret.messages[left]))
                      > ret.max_tokens

\* A context cut in its middle, before a message that would have fitted.
C28_CutBeforeFitting ==
    /\ ret.op = "_truncate_context"
    /\ Len(ret.val) > 0
    /\ Len(ret.messages) - Len(ret.val) > 1
    /\ TotalTokens(ret.val) + CountTokens(MsgText(ret.messages[1]))
           <= ret.max_tokens

\* C29: _collections_initialized is true only after the collections were
\* verified or created: when an operation finds the flag false and its
\* attempt to initialise fails (get_collection and create_collection raise),
\* the flag is false after the operation, so that a later one tries again.
C29_FlagOnlyAfterSuccess ==
    [][(/\ ret'.op \in {"get_enhanced_context_secure", "get_messages_for_period"}
        /\ qdrant_client
        /\ ~collections_initialized
        /\ "ensure" \in ret'.faults)
       => ~collections_initialized']_vars

\* C30: when sync_chat_history is not skipped and the providers are
\* available, it has stored every message of the batch, the summaries hold a
\* chunk of the scope for each calendar week with synced messages, and it
\* returns true.
C30_SyncStoresAndSummarises ==
    (/\ ret.op = "sync_chat_history"
     /\ ~ret.skipped
     /\ qdrant_client /\ ai_client
     /\ ret.faults = {})
    => /\ ret.val
       /\ \A i \in DOMAIN ret.batch :
              PointId(ret.session_id, ret.chat_id, ret.batch[i].id)
                  \in IdsOf(messages)
       /\ Cardinality({c \in summaries :
                          ScopeFilter(c, ret.session_id, ret.chat_id)})
              >= Cardinality(ret.weeks)

====
